---- MODULE Spec2Model ----
(***************************************************************************)
(* A model of packages/lcoe: the LCOE and LCOS engines (core.py), the      *)
(* degradation and financing models (models.py) and the sensitivity and    *)
(* Monte Carlo analyzers (sensitivity.py).                                 *)
(*                                                                         *)
(* Numbers.  Python floats are modelled as exact rationals <<n, d>> in     *)
(* lowest terms with d > 0, so every property is one of exact arithmetic.  *)
(* A Python value is a record [t |-> type tag, v |-> payload]: the tag     *)
(* keeps int apart from float (range() accepts only int), and numbers      *)
(* apart from objects, strings and lists.                                  *)
(*                                                                         *)
(* Objects.  Dataclass instances live in a heap, a function from addresses *)
(* to attribute dictionaries; a nested structure is held by reference, as  *)
(* in Python, so that copying and attribute assignment can alias.          *)
(***************************************************************************)
EXTENDS Integers, Sequences, FiniteSets, TLC

VARIABLES heap, op, args, out, earlier

vars == <<heap, op, args, out, earlier>>

(***************************************************************************)
(* Bounds of the model.                                                    *)
(***************************************************************************)
MaxLife == 3
MaxYear == 4
MaxAnalysisLife == 2
MaxParams == 2
MaxSamples == 2
MaxOverrides == 2

\* The element of a singleton.  The({e(x) : x \in {v}}) is e(v), with v given
\* the name x as an assignment to a local variable does.
The(S) == CHOOSE x \in S : TRUE

(***************************************************************************)
(* Exact rational arithmetic (the model of float arithmetic).              *)
(***************************************************************************)
Abs(x) == IF x < 0 THEN -x ELSE x

RECURSIVE GCD(_, _)
GCD(a, b) == IF b = 0 THEN a ELSE GCD(b, a % b)

\* n/d in lowest terms with a positive denominator, g being gcd(|n|, |d|).
Reduce(n, d, g) ==
    IF d < 0 THEN <<(-n) \div g, (-d) \div g>> ELSE <<n \div g, d \div g>>

Q(n, d) == Reduce(n, d, GCD(Abs(n), Abs(d)))

R(n) == <<n, 1>>

\* a + b over the least common denominator, g being the gcd of the two.
AddOver(a, b, g) ==
    Q(a[1] * (b[2] \div g) + b[1] * (a[2] \div g), (a[2] \div g) * b[2])

RAdd(a, b) ==
    IF a[1] = 0 THEN b
    ELSE IF b[1] = 0 THEN a
    ELSE AddOver(a, b, GCD(a[2], b[2]))

RNeg(a) == <<-a[1], a[2]>>

RSub(a, b) == RAdd(a, RNeg(b))

\* a * b, each numerator first cancelled against the other denominator.
MulOver(a, b, g1, g2) ==
    Q((a[1] \div g1) * (b[1] \div g2), (a[2] \div g2) * (b[2] \div g1))

RMul(a, b) ==
    IF a[1] = 0 \/ b[1] = 0 THEN <<0, 1>>
    ELSE MulOver(a, b, GCD(Abs(a[1]), b[2]), GCD(Abs(b[1]), a[2]))

RInv(a) == IF a[1] < 0 THEN <<-a[2], -a[1]>> ELSE <<a[2], a[1]>>

RDiv(a, b) == RMul(a, RInv(b))

\* n1/d1 < n2/d2 for n1, n2 >= 0 and d1, d2 > 0, by integer parts and then
\* the reciprocals of the fractional parts, so that no product is formed.
RECURSIVE FracLt(_, _, _, _)
FracLt(n1, d1, n2, d2) ==
    LET q1 == n1 \div d1
        q2 == n2 \div d2
        r1 == n1 % d1
        r2 == n2 % d2
    IN  IF q1 # q2 THEN q1 < q2
        ELSE IF r2 = 0 THEN FALSE
        ELSE IF r1 = 0 THEN TRUE
        ELSE FracLt(d2, r2, d1, r1)

RLt(a, b) ==
    IF a[1] < 0 /\ b[1] >= 0 THEN TRUE
    ELSE IF a[1] >= 0 /\ b[1] < 0 THEN FALSE
    ELSE IF a[1] >= 0 THEN FracLt(a[1], a[2], b[1], b[2])
    ELSE FracLt(-b[1], b[2], -a[1], a[2])

RLe(a, b) == ~RLt(b, a)

RMax(a, b) == IF RLt(a, b) THEN b ELSE a

RMin(a, b) == IF RLt(b, a) THEN b ELSE a

RAbs(a) == <<Abs(a[1]), a[2]>>

\* a ** k for an integer k >= 0: a power of a fraction in lowest terms is in
\* lowest terms.
RPow(a, k) == IF k <= 0 THEN R(1) ELSE <<a[1] ^ k, a[2] ^ k>>

\* Python's int(x): truncation toward zero.
RTrunc(a) == IF a[1] >= 0 THEN a[1] \div a[2] ELSE -((-a[1]) \div a[2])

Zero == R(0)
One == R(1)
IsZero(a) == a[1] = 0
IsPos(a) == a[1] > 0

(***************************************************************************)
(* Python values.                                                          *)
(***************************************************************************)
PyInt(n) == [t |-> "int", v |-> R(n)]
PyFloat(q) == [t |-> "float", v |-> q]
PyRef(a) == [t |-> "ref", v |-> a]
PyStr(s) == [t |-> "str", v |-> s]
PyList(l) == [t |-> "list", v |-> l]

IsNum(x) == x.t \in {"int", "float"}

\* Results of a call: a value, or a raised exception.
Ok(v) == [status |-> "ok", value |-> v]
Raise(e) == [status |-> "raise", error |-> e]
IsOk(r) == r.status = "ok"

(***************************************************************************)
(* models.py                                                               *)
(***************************************************************************)
FinancingParameters(dr, infl, tax, debt, rate, itc, rebate) ==
    [discount_rate |-> PyFloat(dr), inflation_rate |-> PyFloat(infl),
     tax_rate |-> PyFloat(tax), debt_fraction |-> PyFloat(debt),
     debt_interest_rate |-> PyFloat(rate), federal_itc |-> PyFloat(itc),
     state_rebate |-> PyFloat(rebate)]

DegradationModel(rate, type, years, rates) ==
    [annual_degradation_rate |-> PyFloat(rate), degradation_type |-> PyStr(type),
     step_years |-> PyList(years), step_rates |-> PyList(rates)]

LCOEInputs(capex, size, fom, vom, fuel, cf, life, degradation, financing) ==
    [capex_per_kw |-> PyFloat(capex), system_size_kw |-> PyFloat(size),
     fixed_om_per_kw_year |-> PyFloat(fom), variable_om_per_mwh |-> PyFloat(vom),
     fuel_cost_per_mwh |-> PyFloat(fuel), capacity_factor |-> PyFloat(cf),
     system_lifetime_years |-> PyInt(life),
     degradation |-> PyRef(degradation), financing |-> PyRef(financing),
     technology_type |-> PyStr("pv"), use_case |-> PyStr("residential")]

LCOSInputs(capex, size, fom, vom, rte, cpy, cycles, cal, dod, cfade, efade, financing) ==
    [capex_per_kwh |-> PyFloat(capex), system_size_kwh |-> PyFloat(size),
     power_rating_kw |-> PyFloat(R(50)),
     fixed_om_per_kwh_year |-> PyFloat(fom), variable_om_per_cycle |-> PyFloat(vom),
     round_trip_efficiency |-> PyFloat(rte), cycles_per_year |-> PyFloat(cpy),
     cycle_life |-> PyInt(cycles), calendar_life_years |-> PyInt(cal),
     depth_of_discharge |-> PyFloat(dod),
     capacity_fade_per_year |-> PyFloat(cfade),
     efficiency_fade_per_cycle |-> PyFloat(efade),
     financing |-> PyRef(financing),
     technology_type |-> PyStr("battery"), use_case |-> PyStr("residential")]

\* FinancingParameters.effective_discount_rate, on the financing object f.
effective_discount_rate(f) ==
    RMul(f.discount_rate.v,
         RSub(One, RMul(f.tax_rate.v, f.debt_fraction.v)))

\* The loop with a step taking effect only after its trigger year.
RECURSIVE StepFactor_after(_, _, _, _, _)
StepFactor_after(years, rates, year, i, factor) ==
    IF i > Len(years) THEN Ok(factor)
    ELSE IF year > years[i]
         THEN IF i > Len(rates) THEN Raise("IndexError")
              ELSE StepFactor_after(years, rates, year, i + 1,
                                    RMul(factor, RSub(One, rates[i])))
         ELSE StepFactor_after(years, rates, year, i + 1, factor)

\* The step variant's loop over enumerate(step_years), from index i on.
RECURSIVE StepFactor(_, _, _, _, _)
StepFactor(years, rates, year, i, factor) ==
    IF i > Len(years) THEN Ok(factor)
    ELSE IF year >= years[i]
         THEN IF i > Len(rates) THEN Raise("IndexError")
              ELSE StepFactor(years, rates, year, i + 1,
                              RMul(factor, RSub(One, rates[i])))
         ELSE StepFactor(years, rates, year, i + 1, factor)

\* performance_factor with the exponential variant compounding upward,
\* (1 + rate) ** year: the sign slip that monotonicity excludes.
performance_factor_growing(d, year) ==
    IF d.degradation_type.v = "linear"
    THEN Ok(RMax(Zero, RSub(One, RMul(R(year), d.annual_degradation_rate.v))))
    ELSE IF d.degradation_type.v = "exponential"
    THEN Ok(RPow(RAdd(One, d.annual_degradation_rate.v), year))
    ELSE IF d.degradation_type.v = "step"
    THEN StepFactor(d.step_years.v, d.step_rates.v, year, 1, One)
    ELSE Ok(One)

\* performance_factor with the linear variant left without its floor at 0.
performance_factor_unfloored(d, year) ==
    IF d.degradation_type.v = "linear"
    THEN Ok(RSub(One, RMul(R(year), d.annual_degradation_rate.v)))
    ELSE IF d.degradation_type.v = "exponential"
    THEN Ok(RPow(RSub(One, d.annual_degradation_rate.v), year))
    ELSE IF d.degradation_type.v = "step"
    THEN StepFactor(d.step_years.v, d.step_rates.v, year, 1, One)
    ELSE Ok(One)

\* DegradationModel.performance_factor, on the degradation object d.
performance_factor(d, year) ==
    IF d.degradation_type.v = "linear"
    THEN Ok(RMax(Zero, RSub(One, RMul(R(year), d.annual_degradation_rate.v))))
    ELSE IF d.degradation_type.v = "exponential"
    THEN Ok(RPow(RSub(One, d.annual_degradation_rate.v), year))
    ELSE IF d.degradation_type.v = "step"
    THEN StepFactor(d.step_years.v, d.step_rates.v, year, 1, One)
    ELSE Ok(One)

(***************************************************************************)
(* core.py: the annuity shared by both engines.  The inputs of the model   *)
(* keep every rate above -1, so (1 + rate) ** year is never zero.          *)
(***************************************************************************)
\* The loop of _calculate_npv_series over the years lo..hi-1: the sum of its
\* terms.  Exact addition is associative, so the terms are added pairwise.
RECURSIVE NpvFrom(_, _, _, _, _)
NpvFrom(annual_amount, discount_rate, inflation_rate, lo, hi) ==
    IF hi <= lo THEN Zero
    ELSE IF hi = lo + 1
    THEN RDiv(RMul(annual_amount, RPow(RAdd(One, inflation_rate), lo)),
              RPow(RAdd(One, discount_rate), lo))
    ELSE The({ RAdd(first, second) :
               first \in {NpvFrom(annual_amount, discount_rate, inflation_rate,
                                  lo, (lo + hi) \div 2)},
               second \in {NpvFrom(annual_amount, discount_rate, inflation_rate,
                                   (lo + hi) \div 2, hi)} })

\* _calculate_npv_series: range(years) raises TypeError on a float.
calculate_npv_series(annual_amount, years, discount_rate, inflation_rate) ==
    IF years.t # "int" THEN Raise("TypeError")
    ELSE Ok(NpvFrom(annual_amount, discount_rate, inflation_rate,
                    0, RTrunc(years.v)))

(***************************************************************************)
(* core.py: LCOECalculator.  h is the heap, a the address of the inputs.   *)
(***************************************************************************)
\* The net capital cost with the subtraction reversed: the incentives less
\* the base cost.
LCOE_calculate_total_capex_reversed(h, a) ==
    LET inputs == h[a]
        financing == h[inputs.financing.v]
        base_capex == RMul(inputs.capex_per_kw.v, inputs.system_size_kw.v)
        itc_benefit == RMul(base_capex, financing.federal_itc.v)
        state_rebate == RMul(financing.state_rebate.v, inputs.system_size_kw.v)
        net_capex == RSub(RAdd(itc_benefit, state_rebate), base_capex)
    IN  RMax(Zero, net_capex)

LCOE_calculate_total_capex(h, a) ==
    LET inputs == h[a]
        financing == h[inputs.financing.v]
        base_capex == RMul(inputs.capex_per_kw.v, inputs.system_size_kw.v)
        itc_benefit == RMul(base_capex, financing.federal_itc.v)
        state_rebate == RMul(financing.state_rebate.v, inputs.system_size_kw.v)
        net_capex == RSub(RSub(base_capex, itc_benefit), state_rebate)
    IN  RMax(Zero, net_capex)

LCOE_calculate_annual_energy(h, a) ==
    RDiv(RMul(RMul(h[a].system_size_kw.v, h[a].capacity_factor.v), R(8760)),
         R(1000))

RECURSIVE LifetimeEnergyFrom(_, _, _, _, _)
LifetimeEnergyFrom(degradation, annual_energy_mwh, discount_rate, years, year) ==
    IF year >= years THEN Ok(Zero)
    ELSE The({ IF ~IsOk(pf) THEN pf
               ELSE The({ IF ~IsOk(rest) THEN rest
                          ELSE Ok(RAdd(RDiv(RMul(annual_energy_mwh, pf.value),
                                            RPow(RAdd(One, discount_rate), year)),
                                       rest.value)) :
                          rest \in {LifetimeEnergyFrom(degradation, annual_energy_mwh,
                                                       discount_rate, years, year + 1)} }) :
               pf \in {performance_factor(degradation, year)} })

LCOE_calculate_lifetime_energy(h, a, annual_energy_mwh) ==
    LET inputs == h[a]
        discount_rate == effective_discount_rate(h[inputs.financing.v])
    IN  IF inputs.system_lifetime_years.t # "int" THEN Raise("TypeError")
        ELSE LifetimeEnergyFrom(h[inputs.degradation.v], annual_energy_mwh,
                                discount_rate,
                                RTrunc(inputs.system_lifetime_years.v), 0)

LCOE_calculate_opex_npv(h, a) ==
    LET inputs == h[a]
        financing == h[inputs.financing.v]
        annual_fixed_om == RMul(inputs.fixed_om_per_kw_year.v, inputs.system_size_kw.v)
        annual_variable_om ==
            RMul(inputs.variable_om_per_mwh.v, LCOE_calculate_annual_energy(h, a))
        annual_opex == RAdd(annual_fixed_om, annual_variable_om)
    IN  calculate_npv_series(annual_opex, inputs.system_lifetime_years,
                             effective_discount_rate(financing),
                             financing.inflation_rate.v)

LCOE_calculate_fuel_npv(h, a, annual_energy_mwh) ==
    LET inputs == h[a]
        financing == h[inputs.financing.v]
    IN  IF RLe(inputs.fuel_cost_per_mwh.v, Zero) THEN Ok(Zero)
        ELSE calculate_npv_series(
                 RMul(inputs.fuel_cost_per_mwh.v, annual_energy_mwh),
                 inputs.system_lifetime_years,
                 effective_discount_rate(financing),
                 financing.inflation_rate.v)

LCOE_calculate_financing_cost(h, a, capex) ==
    LET inputs == h[a]
        financing == h[inputs.financing.v]
        debt_amount == RMul(capex, financing.debt_fraction.v)
        annual_interest == RMul(debt_amount, financing.debt_interest_rate.v)
    IN  calculate_npv_series(annual_interest, inputs.system_lifetime_years,
                             effective_discount_rate(financing), Zero)

\* The levelized value with the undivided cost, instead of 0, where the
\* quantity is not positive.
Levelized_unguarded(cost, quantity) ==
    IF IsPos(quantity) THEN RDiv(cost, quantity) ELSE cost

\* cost / quantity if quantity > 0 else 0
Levelized(cost, quantity) ==
    IF IsPos(quantity) THEN RDiv(cost, quantity) ELSE Zero

\* The total with the financing cost left out of the sum.
total_costs_without_financing(total_capex, total_opex_npv, third_npv, financing_cost) ==
    RAdd(RAdd(total_capex, total_opex_npv), third_npv)

\* A total kept on the engine, which grows by one with every call after the
\* first.
total_costs_accumulated(total_capex, total_opex_npv, third_npv, financing_cost) ==
    RAdd(RAdd(RAdd(RAdd(total_capex, total_opex_npv), third_npv), financing_cost),
         IF earlier = [status |-> "none"] THEN Zero ELSE One)

\* total_costs: capex + opex NPV + fuel (LCOE) or replacement (LCOS) NPV +
\* financing cost.
total_costs(total_capex, total_opex_npv, third_npv, financing_cost) ==
    RAdd(RAdd(RAdd(total_capex, total_opex_npv), third_npv), financing_cost)

\* The LCOEResult built at core.py 42-64 from the six intermediate values.
LCOE_result(h, a, total_capex, annual_energy_mwh, lifetime_energy_mwh, total_opex_npv, total_fuel_npv, financing_cost) ==
    LET lcoe_usd_per_mwh ==
            Levelized(total_costs(total_capex, total_opex_npv, total_fuel_npv,
                                  financing_cost),
                      lifetime_energy_mwh)
        cf_denominator == RMul(h[a].system_size_kw.v, Q(876, 100))
    IN  IF IsZero(cf_denominator) THEN Raise("ZeroDivisionError")
        ELSE Ok([lcoe_usd_per_mwh |-> lcoe_usd_per_mwh,
                 lcoe_usd_per_kwh |-> RDiv(lcoe_usd_per_mwh, R(1000)),
                 capex_component |-> Levelized(total_capex, lifetime_energy_mwh),
                 opex_component |-> Levelized(total_opex_npv, lifetime_energy_mwh),
                 fuel_component |-> Levelized(total_fuel_npv, lifetime_energy_mwh),
                 financing_component |-> Levelized(financing_cost, lifetime_energy_mwh),
                 total_capex |-> total_capex,
                 total_opex_npv |-> total_opex_npv,
                 total_energy_mwh |-> lifetime_energy_mwh,
                 capacity_factor_actual |-> RDiv(annual_energy_mwh, cf_denominator)])

\* The end of LCOECalculator.calculate: the first exception raised by a
\* step propagates, otherwise the result is built.
LCOE_finish(h, a, total_capex, annual_energy_mwh, lifetime_energy_mwh, total_opex_npv, total_fuel_npv, financing_cost) ==
    IF ~IsOk(lifetime_energy_mwh) THEN lifetime_energy_mwh
    ELSE IF ~IsOk(total_opex_npv) THEN total_opex_npv
    ELSE IF ~IsOk(total_fuel_npv) THEN total_fuel_npv
    ELSE IF ~IsOk(financing_cost) THEN financing_cost
    ELSE LCOE_result(h, a, total_capex, annual_energy_mwh,
                     lifetime_energy_mwh.value, total_opex_npv.value,
                     total_fuel_npv.value, financing_cost.value)

\* The steps of LCOECalculator.calculate that use the capex and the energy.
LCOE_steps(h, a, total_capex, annual_energy_mwh) ==
    The({ LCOE_finish(h, a, total_capex, annual_energy_mwh, lifetime_energy_mwh,
                      total_opex_npv, total_fuel_npv, financing_cost) :
          lifetime_energy_mwh \in
              {LCOE_calculate_lifetime_energy(h, a, annual_energy_mwh)},
          total_opex_npv \in {LCOE_calculate_opex_npv(h, a)},
          total_fuel_npv \in {LCOE_calculate_fuel_npv(h, a, annual_energy_mwh)},
          financing_cost \in {LCOE_calculate_financing_cost(h, a, total_capex)} })

\* LCOECalculator.calculate.
LCOE_calculate(h, a) ==
    The({ LCOE_steps(h, a, total_capex, annual_energy_mwh) :
          total_capex \in {LCOE_calculate_total_capex(h, a)},
          annual_energy_mwh \in {LCOE_calculate_annual_energy(h, a)} })

(***************************************************************************)
(* core.py: LCOSCalculator.                                                *)
(***************************************************************************)
LCOS_calculate_total_capex(h, a) ==
    LET inputs == h[a]
        financing == h[inputs.financing.v]
        base_capex == RMul(inputs.capex_per_kwh.v, inputs.system_size_kwh.v)
        itc_benefit == RMul(base_capex, financing.federal_itc.v)
        state_rebate == RMul(financing.state_rebate.v, inputs.system_size_kwh.v)
        net_capex == RSub(RSub(base_capex, itc_benefit), state_rebate)
    IN  RMax(Zero, net_capex)

\* cycle_life / cycles_per_year, the first statement of five methods.
cycle_limited_years(inputs) ==
    IF IsZero(inputs.cycles_per_year.v) THEN Raise("ZeroDivisionError")
    ELSE Ok(RDiv(inputs.cycle_life.v, inputs.cycles_per_year.v))

\* The lifetime taken from the calendar life alone, whatever the cycle limit.
actual_lifetime_calendar(inputs, cycle_limited) == inputs.calendar_life_years.v

\* min(cycle_limited_years, inputs.calendar_life_years), given the former.
actual_lifetime(inputs, cycle_limited) ==
    RMin(cycle_limited, inputs.calendar_life_years.v)

\* The iteration with the efficiency floored at 1.0 instead of 0.7.
YearThroughput_floor_one(inputs, annual_throughput_base, discount_rate, year) ==
    LET capacity_factor ==
            RMax(Q(1, 2), RSub(One, RMul(R(year), inputs.capacity_fade_per_year.v)))
        total_cycles == RMul(R(year), inputs.cycles_per_year.v)
        efficiency_factor ==
            RMax(One,
                 RSub(inputs.round_trip_efficiency.v,
                      RMul(total_cycles, inputs.efficiency_fade_per_cycle.v)))
    IN  IF IsZero(inputs.round_trip_efficiency.v) THEN Raise("ZeroDivisionError")
        ELSE Ok([total |->
                     RDiv(RMul(RMul(annual_throughput_base, capacity_factor),
                               RDiv(efficiency_factor, inputs.round_trip_efficiency.v)),
                          RPow(RAdd(One, discount_rate), year)),
                 iterations |-> 1])

\* One iteration of the loop of _calculate_lifetime_throughput: the
\* discounted throughput of the year.
YearThroughput(inputs, annual_throughput_base, discount_rate, year) ==
    LET capacity_factor ==
            RMax(Q(1, 2), RSub(One, RMul(R(year), inputs.capacity_fade_per_year.v)))
        total_cycles == RMul(R(year), inputs.cycles_per_year.v)
        efficiency_factor ==
            RMax(Q(7, 10),
                 RSub(inputs.round_trip_efficiency.v,
                      RMul(total_cycles, inputs.efficiency_fade_per_cycle.v)))
    IN  IF IsZero(inputs.round_trip_efficiency.v) THEN Raise("ZeroDivisionError")
        ELSE Ok([total |->
                     RDiv(RMul(RMul(annual_throughput_base, capacity_factor),
                               RDiv(efficiency_factor, inputs.round_trip_efficiency.v)),
                          RPow(RAdd(One, discount_rate), year)),
                 iterations |-> 1])

\* The loop over the years lo..hi-1: the discounted sum and the number of
\* years the loop has run through, or the first exception.  The terms are
\* added pairwise, as in NpvFrom.
RECURSIVE ThroughputFrom(_, _, _, _, _)
ThroughputFrom(inputs, annual_throughput_base, discount_rate, lo, hi) ==
    IF hi <= lo THEN Ok([total |-> Zero, iterations |-> 0])
    ELSE IF hi = lo + 1
    THEN YearThroughput(inputs, annual_throughput_base, discount_rate, lo)
    ELSE The({ IF ~IsOk(first) THEN first
               ELSE IF ~IsOk(second) THEN second
               ELSE Ok([total |-> RAdd(first.value.total, second.value.total),
                        iterations |-> first.value.iterations
                                       + second.value.iterations]) :
               first \in {ThroughputFrom(inputs, annual_throughput_base,
                                         discount_rate, lo, (lo + hi) \div 2)},
               second \in {ThroughputFrom(inputs, annual_throughput_base,
                                          discount_rate, (lo + hi) \div 2, hi)} })

LCOS_calculate_lifetime_throughput(h, a) ==
    LET inputs == h[a]
        cly == cycle_limited_years(inputs)
        usable_capacity_kwh == RMul(inputs.system_size_kwh.v, inputs.depth_of_discharge.v)
        annual_throughput_base ==
            RDiv(RMul(RMul(usable_capacity_kwh, inputs.cycles_per_year.v),
                      inputs.round_trip_efficiency.v), R(1000))
    IN  IF ~IsOk(cly) THEN cly
        ELSE ThroughputFrom(inputs, annual_throughput_base,
                            effective_discount_rate(h[inputs.financing.v]),
                            0, RTrunc(actual_lifetime(inputs, cly.value)))

LCOS_calculate_opex_npv(h, a) ==
    LET inputs == h[a]
        financing == h[inputs.financing.v]
        annual_fixed_om == RMul(inputs.fixed_om_per_kwh_year.v, inputs.system_size_kwh.v)
        annual_variable_om == RMul(inputs.variable_om_per_cycle.v, inputs.cycles_per_year.v)
    IN  calculate_npv_series(RAdd(annual_fixed_om, annual_variable_om),
                             inputs.calendar_life_years,
                             effective_discount_rate(financing),
                             financing.inflation_rate.v)

\* A second replacement when the cycle-limited life has elapsed twice within
\* the calendar life.
LCOS_calculate_replacement_cost_repeated(h, a) ==
    LET inputs == h[a]
        cly == cycle_limited_years(inputs)
        replacement_cost ==
            RMul(RMul(inputs.capex_per_kwh.v, inputs.system_size_kwh.v), Q(7, 10))
        growth == RAdd(One, effective_discount_rate(h[inputs.financing.v]))
    IN  IF ~IsOk(cly) THEN cly
        ELSE IF RLt(cly.value, inputs.calendar_life_years.v)
        THEN Ok(RAdd(RDiv(replacement_cost, RPow(growth, RTrunc(cly.value))),
                     IF RLt(RMul(R(2), cly.value), inputs.calendar_life_years.v)
                     THEN RDiv(replacement_cost,
                               RPow(growth, RTrunc(RMul(R(2), cly.value))))
                     ELSE Zero))
        ELSE Ok(Zero)

LCOS_calculate_replacement_cost(h, a) ==
    LET inputs == h[a]
        cly == cycle_limited_years(inputs)
    IN  IF ~IsOk(cly) THEN cly
        ELSE IF RLt(cly.value, inputs.calendar_life_years.v)
        THEN LET replacement_year == RTrunc(cly.value)
                 replacement_cost ==
                     RMul(RMul(inputs.capex_per_kwh.v, inputs.system_size_kwh.v), Q(7, 10))
                 discount_rate == effective_discount_rate(h[inputs.financing.v])
             IN  Ok(RDiv(replacement_cost,
                         RPow(RAdd(One, discount_rate), replacement_year)))
        ELSE Ok(Zero)

LCOS_calculate_financing_cost(h, a, capex) ==
    LET inputs == h[a]
        financing == h[inputs.financing.v]
        debt_amount == RMul(capex, financing.debt_fraction.v)
        annual_interest == RMul(debt_amount, financing.debt_interest_rate.v)
    IN  calculate_npv_series(annual_interest, inputs.calendar_life_years,
                             effective_discount_rate(financing), Zero)

\* The three performance metrics; each is reached only after
\* _calculate_lifetime_throughput has divided by cycles_per_year.
LCOS_calculate_effective_cycles(inputs) ==
    RMul(actual_lifetime(inputs, cycle_limited_years(inputs).value),
         inputs.cycles_per_year.v)

\* The end-of-life capacity without its floor at 0.5.
LCOS_calculate_end_of_life_capacity_unfloored(inputs) ==
    RSub(One, RMul(actual_lifetime(inputs, cycle_limited_years(inputs).value),
                   inputs.capacity_fade_per_year.v))

LCOS_calculate_end_of_life_capacity(inputs) ==
    RMax(Q(1, 2),
         RSub(One, RMul(actual_lifetime(inputs, cycle_limited_years(inputs).value),
                        inputs.capacity_fade_per_year.v)))

LCOS_calculate_average_efficiency(inputs) ==
    LET total_cycles == LCOS_calculate_effective_cycles(inputs)
        end_efficiency ==
            RMax(Q(7, 10),
                 RSub(inputs.round_trip_efficiency.v,
                      RMul(total_cycles, inputs.efficiency_fade_per_cycle.v)))
    IN  RDiv(RAdd(inputs.round_trip_efficiency.v, end_efficiency), R(2))

\* The LCOSResult built at core.py 179-209.  years_integrated is not a field
\* of LCOSResult: it records how many years the throughput loop ran through.
LCOS_result(h, a, total_capex, throughput, total_opex_npv, replacement_cost_npv, financing_cost) ==
    LET lifetime_throughput_mwh == throughput.total
        lcos_usd_per_mwh ==
            Levelized(total_costs(total_capex, total_opex_npv, replacement_cost_npv,
                                  financing_cost),
                      lifetime_throughput_mwh)
    IN  Ok([lcos_usd_per_mwh |-> lcos_usd_per_mwh,
            lcos_usd_per_kwh |-> RDiv(lcos_usd_per_mwh, R(1000)),
            capex_component |-> Levelized(total_capex, lifetime_throughput_mwh),
            opex_component |-> Levelized(total_opex_npv, lifetime_throughput_mwh),
            replacement_component |->
                Levelized(replacement_cost_npv, lifetime_throughput_mwh),
            financing_component |-> Levelized(financing_cost, lifetime_throughput_mwh),
            total_throughput_mwh |-> lifetime_throughput_mwh,
            effective_cycles |-> LCOS_calculate_effective_cycles(h[a]),
            end_of_life_capacity |-> LCOS_calculate_end_of_life_capacity(h[a]),
            average_efficiency |-> LCOS_calculate_average_efficiency(h[a]),
            total_capex |-> total_capex,
            total_opex_npv |-> total_opex_npv,
            replacement_cost_npv |-> replacement_cost_npv,
            years_integrated |-> throughput.iterations])

\* The end of LCOSCalculator.calculate: the first exception raised by a
\* step propagates, otherwise the result is built.
LCOS_finish(h, a, total_capex, throughput, total_opex_npv, replacement_cost_npv, financing_cost) ==
    IF ~IsOk(throughput) THEN throughput
    ELSE IF ~IsOk(total_opex_npv) THEN total_opex_npv
    ELSE IF ~IsOk(replacement_cost_npv) THEN replacement_cost_npv
    ELSE IF ~IsOk(financing_cost) THEN financing_cost
    ELSE LCOS_result(h, a, total_capex, throughput.value, total_opex_npv.value,
                     replacement_cost_npv.value, financing_cost.value)

\* The steps of LCOSCalculator.calculate that use the capex.
LCOS_steps(h, a, total_capex) ==
    The({ LCOS_finish(h, a, total_capex, throughput, total_opex_npv,
                      replacement_cost_npv, financing_cost) :
          throughput \in {LCOS_calculate_lifetime_throughput(h, a)},
          total_opex_npv \in {LCOS_calculate_opex_npv(h, a)},
          replacement_cost_npv \in {LCOS_calculate_replacement_cost(h, a)},
          financing_cost \in {LCOS_calculate_financing_cost(h, a, total_capex)} })

\* LCOSCalculator.calculate.
LCOS_calculate(h, a) ==
    The({ LCOS_steps(h, a, total_capex) :
          total_capex \in {LCOS_calculate_total_capex(h, a)} })

(***************************************************************************)
(* Objects: getattr, setattr and copy.deepcopy on the heap.  The heap is a *)
(* sequence of attribute dictionaries, an address an index into it.  The   *)
(* structures nested in an inputs object hold no further references.       *)
(***************************************************************************)
HasAttr(h, value, attr) == value.t = "ref" /\ attr \in DOMAIN h[value.v]

\* setattr(obj, attr, new_value): writes the attribute, creating it if absent.
SetAttr(h, addr, attr, new_value) ==
    [h EXCEPT ![addr] =
        [f \in (DOMAIN h[addr]) \cup {attr} |->
            IF f = attr THEN new_value ELSE h[addr][f]]]

RefFields(o) == {f \in DOMAIN o : o[f].t = "ref"}

\* copy.deepcopy(h[a]): a new object at Len(h) + 1, and a new copy of each
\* structure it refers to behind it.
DeepCopy(h, a) ==
    LET o == h[a]
        rf == RefFields(o)
        k == Cardinality(rf)
        n == Len(h)
        idx == CHOOSE m \in [rf -> 1..k] : \A f, g \in rf : f # g => m[f] # m[g]
    IN  [x \in 1..(n + 1 + k) |->
            IF x <= n THEN h[x]
            ELSE IF x = n + 1
                 THEN [f \in DOMAIN o |->
                          IF f \in rf THEN PyRef(n + 1 + idx[f]) ELSE o[f]]
                 ELSE h[o[CHOOSE f \in rf : idx[f] = x - n - 1].v]]

\* _get_nested_attribute: getattr along the path, from the value `value` on.
RECURSIVE GetNestedFrom(_, _, _, _)
GetNestedFrom(h, value, attrs, i) ==
    IF i > Len(attrs) THEN Ok(value)
    ELSE IF ~HasAttr(h, value, attrs[i]) THEN Raise("AttributeError")
    ELSE GetNestedFrom(h, h[value.v][attrs[i]], attrs, i + 1)

get_nested_attribute(h, a, attr_path) == GetNestedFrom(h, PyRef(a), attr_path, 1)

\* copy.copy(h[a]): a new object at Len(h) + 1 whose fields are those of
\* h[a], the nested structures shared with it.
ShallowCopy(h, a) == Append(h, h[a])

\* The copy made by _copy_inputs_with_param and _create_sample_inputs.
CopyInputs(h, a) == DeepCopy(h, a)

\* The tail shared by _copy_inputs_with_param and _create_sample_inputs:
\* walk attrs[:-1] from the object at addr, then setattr the last segment.
SetByPath(h, addr, attrs, new_value) ==
    LET holder == GetNestedFrom(h, PyRef(addr), SubSeq(attrs, 1, Len(attrs) - 1), 1)
    IN  IF ~IsOk(holder) THEN [heap |-> h, result |-> holder]
        ELSE IF holder.value.t # "ref"
        THEN [heap |-> h, result |-> Raise("AttributeError")]
        ELSE [heap |-> SetAttr(h, holder.value.v, attrs[Len(attrs)], new_value),
              result |-> Ok(addr)]

\* _copy_inputs_with_param: the heap after the call, and the address of the
\* new inputs (or the exception).
copy_inputs_with_param(h, a, param_path, new_value) ==
    CHOOSE r \in { SetByPath(copied, Len(h) + 1, param_path, new_value) :
                   copied \in {CopyInputs(h, a)} } : TRUE

(***************************************************************************)
(* sensitivity.py: SensitivityAnalyzer.  The two analyze methods differ    *)
(* only in the engine they call and in the result field they read, named   *)
(* here by kind ("lcoe" or "lcos").  A dotted path is modelled after its   *)
(* split('.'), as the sequence of its segments.                            *)
(***************************************************************************)
EngineCalculate(kind, h, a) ==
    IF kind = "lcoe" THEN LCOE_calculate(h, a) ELSE LCOS_calculate(h, a)

EngineOutput(kind, result) ==
    IF kind = "lcoe" THEN result.lcoe_usd_per_kwh ELSE result.lcos_usd_per_kwh

DefaultLCOEParameters ==
    << <<"capex_per_kw">>, <<"capacity_factor">>, <<"system_lifetime_years">>,
       <<"fixed_om_per_kw_year">>, <<"financing", "discount_rate">> >>

DefaultLCOSParameters ==
    << <<"capex_per_kwh">>, <<"round_trip_efficiency">>, <<"cycle_life">>,
       <<"cycles_per_year">>, <<"capacity_fade_per_year">>,
       <<"financing", "discount_rate">> >>

\* The sensitivity and elasticity expressions (sensitivity.py 96-97).
SensitivityMetrics(base_value, low_value, high_value, base_out, low_out, high_out) ==
    LET dv == RSub(high_value, low_value)
        dout == RSub(high_out, low_out)
        sensitivity == IF high_value # low_value THEN RDiv(dout, dv) ELSE Zero
    IN  IF ~IsZero(base_value) /\ ~IsZero(base_out)
        THEN IF IsZero(RDiv(dv, base_value)) THEN Raise("ZeroDivisionError")
             ELSE Ok([sensitivity |-> sensitivity,
                      elasticity |-> RDiv(RDiv(dout, base_out), RDiv(dv, base_value))])
        ELSE Ok([sensitivity |-> sensitivity, elasticity |-> Zero])

\* One varied calculation of the try block: the copy with the parameter set
\* to new_value, and the engine's result on it.  (Here and below a value that
\* is used more than once is bound by CHOOSE ... \in {e}, which gives it a name
\* as LET does.)
VariedCalculation(kind, h, a, param, new_value) ==
    CHOOSE r \in { IF ~IsOk(copy.result) THEN copy
                   ELSE [heap |-> copy.heap,
                         result |-> EngineCalculate(kind, copy.heap, copy.result.value)] :
                   copy \in {copy_inputs_with_param(h, a, param, PyFloat(new_value))} } :
        TRUE

\* The SensitivityResult built from the three outputs, or the exception of
\* the metrics.
SensitivityResult(param, base_value, low_value, high_value, base_out, low_out, high_out) ==
    CHOOSE r \in { IF ~IsOk(m) THEN m
                   ELSE Ok([parameter_name |-> param,
                            base_value |-> base_value,
                            low_value |-> low_value,
                            high_value |-> high_value,
                            base_result |-> base_out,
                            low_result |-> low_out,
                            high_result |-> high_out,
                            sensitivity |-> m.value.sensitivity,
                            elasticity |-> m.value.elasticity]) :
                   m \in {SensitivityMetrics(base_value, low_value, high_value,
                                             base_out, low_out, high_out)} } :
        TRUE

\* The body of the try block for one parameter: the heap it leaves, and the
\* SensitivityResult it appends or the exception the except clause catches.
SensitivityOfParameter(kind, h, a, base_out, param, variation_percent) ==
    LET got == get_nested_attribute(h, a, param)
    IN  IF ~IsOk(got) THEN [heap |-> h, result |-> got]
        ELSE IF ~IsNum(got.value) THEN [heap |-> h, result |-> Raise("TypeError")]
        ELSE
        LET base_value == got.value.v
            low_value == RMul(base_value, RSub(One, variation_percent))
            high_value == RMul(base_value, RAdd(One, variation_percent))
        IN  CHOOSE r \in
              { IF ~IsOk(low.result) THEN low
                ELSE CHOOSE r2 \in
                  { IF ~IsOk(high.result) THEN high
                    ELSE [heap |-> high.heap,
                          result |-> SensitivityResult(
                                         param, base_value, low_value, high_value,
                                         base_out,
                                         EngineOutput(kind, low.result.value),
                                         EngineOutput(kind, high.result.value))] :
                    high \in {VariedCalculation(kind, low.heap, a, param, high_value)} } :
                      TRUE :
                low \in {VariedCalculation(kind, h, a, param, low_value)} } :
                  TRUE

\* An except clause that leaves the loop at the first parameter that raised.
AbortOnFailure(step, results) == [stop |-> TRUE, results |-> results]

\* What the except clause does with a parameter that raised: the warning is
\* logged, nothing is appended, and the loop goes on to the next parameter.
OnParameterFailure(step, results) == [stop |-> FALSE, results |-> results]

\* for param in parameters: try ... except, from index i on.
RECURSIVE SensitivityLoop(_, _, _, _, _, _, _, _)
SensitivityLoop(kind, h, a, base_out, parameters, variation_percent, i, results) ==
    IF i > Len(parameters) THEN [heap |-> h, results |-> results]
    ELSE CHOOSE r \in
           { IF IsOk(step.result)
             THEN SensitivityLoop(kind, step.heap, a, base_out, parameters,
                                  variation_percent, i + 1,
                                  Append(results, step.result.value))
             ELSE LET f == OnParameterFailure(step, results)
                  IN  IF f.stop THEN [heap |-> step.heap, results |-> f.results]
                      ELSE SensitivityLoop(kind, step.heap, a, base_out, parameters,
                                           variation_percent, i + 1, f.results) :
             step \in {SensitivityOfParameter(kind, h, a, base_out, parameters[i],
                                              variation_percent)} } :
               TRUE

\* list.sort(key=lambda x: abs(x.elasticity), reverse=True): a stable sort
\* into descending order of the key, as an insertion sort.
RECURSIVE InsertByElasticity(_, _)
InsertByElasticity(sorted, x) ==
    IF sorted = <<>> THEN <<x>>
    ELSE IF RLt(RAbs(Head(sorted).elasticity), RAbs(x.elasticity))
         THEN <<x>> \o sorted
         ELSE <<Head(sorted)>> \o InsertByElasticity(Tail(sorted), x)

RECURSIVE SortFrom(_, _, _)
SortFrom(results, i, sorted) ==
    IF i > Len(results) THEN sorted
    ELSE SortFrom(results, i + 1, InsertByElasticity(sorted, results[i]))

\* The results left in the order of the requested parameters.
Unsorted(results) == results

SortByElasticity(results) == SortFrom(results, 1, <<>>)

\* The body shared by analyze_lcoe_sensitivity and analyze_lcos_sensitivity:
\* the heap the call leaves and the list it returns, or the exception of the
\* base calculation, which is outside the try block.
AnalyzeSensitivity(kind, h, a, parameters, variation_percent) ==
    CHOOSE r \in
      { IF ~IsOk(base_result) THEN [heap |-> h, result |-> base_result]
        ELSE CHOOSE r2 \in
               { [heap |-> loop.heap, result |-> Ok(SortByElasticity(loop.results))] :
                 loop \in {SensitivityLoop(kind, h, a, base_out, parameters,
                                           variation_percent, 1, <<>>) :
                           base_out \in {EngineOutput(kind, base_result.value)}} } :
                   TRUE :
        base_result \in {EngineCalculate(kind, h, a)} } :
          TRUE

\* parameters: [given |-> FALSE] models None, which selects the default list.
analyze_lcoe_sensitivity(h, a, parameters, variation_percent) ==
    AnalyzeSensitivity("lcoe", h, a,
                       IF parameters.given THEN parameters.list
                       ELSE DefaultLCOEParameters, variation_percent)

analyze_lcos_sensitivity(h, a, parameters, variation_percent) ==
    AnalyzeSensitivity("lcos", h, a,
                       IF parameters.given THEN parameters.list
                       ELSE DefaultLCOSParameters, variation_percent)

(***************************************************************************)
(* sensitivity.py: MonteCarloAnalyzer.  The random draws of                *)
(* _generate_parameter_samples are an input of the model: parameter_samples *)
(* maps each distribution's name to the sequence of its n_samples draws.   *)
(* A NaN entry of the output list is modelled by the exception it stands   *)
(* for; of the statistics, those that exact arithmetic can express.        *)
(***************************************************************************)
ParameterDistribution(name, distribution_type, base_value) ==
    [name |-> name, distribution_type |-> distribution_type, base_value |-> base_value]

\* for dist in distributions: setattr along dist.name, from index j on.
RECURSIVE SetSamplesFrom(_, _, _, _, _, _)
SetSamplesFrom(h, root, distributions, parameter_samples, sample_index, j) ==
    IF j > Len(distributions) THEN [heap |-> h, result |-> Ok(root)]
    ELSE LET dist == distributions[j]
             sample_value == parameter_samples[dist.name][sample_index]
         IN  CHOOSE r \in
               { IF ~IsOk(set.result) THEN set
                 ELSE SetSamplesFrom(set.heap, root, distributions, parameter_samples,
                                     sample_index, j + 1) :
                 set \in {SetByPath(h, root, dist.name, PyFloat(sample_value))} } :
                   TRUE

create_sample_inputs(h, a, distributions, parameter_samples, sample_index) ==
    CHOOSE r \in { SetSamplesFrom(copied, Len(h) + 1, distributions, parameter_samples,
                                  sample_index, 1) :
                   copied \in {CopyInputs(h, a)} } : TRUE

\* What one sample adds to the output list: the engine's output, or (for the
\* NaN of the except clause) the exception caught.
SampleOutput(kind, result) ==
    IF IsOk(result) THEN Ok(EngineOutput(kind, result.value)) ELSE result

\* for i in range(self.n_samples): try ... except, from sample i on.
RECURSIVE SampleLoop(_, _, _, _, _, _, _, _)
SampleLoop(kind, h, a, distributions, parameter_samples, n_samples, i, outputs) ==
    IF i > n_samples THEN [heap |-> h, outputs |-> outputs]
    ELSE CHOOSE r \in
           { SampleLoop(kind, made.heap, a, distributions, parameter_samples,
                        n_samples, i + 1,
                        Append(outputs,
                               IF IsOk(made.result)
                               THEN SampleOutput(kind, EngineCalculate(kind, made.heap,
                                                                       made.result.value))
                               ELSE made.result)) :
             made \in {create_sample_inputs(h, a, distributions, parameter_samples, i)} } :
               TRUE

\* The outputs that precede the first failure: a batch that the first failing
\* sample ends.
RECURSIVE OutputsBeforeFailure(_)
OutputsBeforeFailure(outputs) ==
    IF outputs = <<>> \/ ~IsOk(Head(outputs)) THEN <<>>
    ELSE <<Head(outputs).value>> \o OutputsBeforeFailure(Tail(outputs))

\* samples[~np.isnan(samples)]: the valid outputs, in order.
RECURSIVE ValidOutputs(_)
ValidOutputs(outputs) ==
    IF outputs = <<>> THEN <<>>
    ELSE IF IsOk(Head(outputs))
         THEN <<Head(outputs).value>> \o ValidOutputs(Tail(outputs))
         ELSE ValidOutputs(Tail(outputs))

RECURSIVE RSum(_)
RSum(xs) == IF xs = <<>> THEN Zero ELSE RAdd(Head(xs), RSum(Tail(xs)))

RECURSIVE RMaxOf(_)
RMaxOf(xs) == IF Len(xs) = 1 THEN xs[1] ELSE RMax(Head(xs), RMaxOf(Tail(xs)))

RECURSIVE RMinOf(_)
RMinOf(xs) == IF Len(xs) = 1 THEN xs[1] ELSE RMin(Head(xs), RMinOf(Tail(xs)))

RECURSIVE RDot(_, _)
RDot(xs, ys) ==
    IF xs = <<>> THEN Zero
    ELSE RAdd(RMul(Head(xs), Head(ys)), RDot(Tail(xs), Tail(ys)))

RMean(xs) == RDiv(RSum(xs), R(Len(xs)))

Deviations(xs, mean) == [i \in 1..Len(xs) |-> RSub(xs[i], mean)]

\* The coefficient from the covariance and the two variances (each times
\* the number of samples), as its sign and its square; NaN, which a zero
\* variance gives, is replaced by 0.0.
CorrelationFrom(cov, var_x, var_y) ==
    IF IsZero(var_x) \/ IsZero(var_y) THEN [sign |-> 0, square |-> Zero]
    ELSE [sign |-> IF IsPos(cov) THEN 1 ELSE IF IsZero(cov) THEN 0 ELSE -1,
          square |-> RDiv(RMul(cov, cov), RMul(var_x, var_y))]

CorrelationOfDeviations(dx, dy) ==
    CorrelationFrom(RDot(dx, dy), RDot(dx, dx), RDot(dy, dy))

\* np.corrcoef(param_samples, samples)[0, 1] if not NaN else 0.0
Correlation(param_samples, samples) ==
    CorrelationOfDeviations(Deviations(param_samples, RMean(param_samples)),
                            Deviations(samples, RMean(samples)))

\* _calculate_monte_carlo_stats: correlated holds, per distribution, the
\* parameter samples np.corrcoef is given beside the valid outputs.
calculate_monte_carlo_stats(samples, distributions, parameter_samples) ==
    [mean |-> RMean(samples),
     min_value |-> RMinOf(samples),
     max_value |-> RMaxOf(samples),
     samples |-> samples,
     parameter_correlations |->
         [j \in 1..Len(distributions) |->
             Correlation(SubSeq(parameter_samples[distributions[j].name], 1,
                                Len(samples)),
                         samples)],
     correlated |->
         [j \in 1..Len(distributions) |->
             SubSeq(parameter_samples[distributions[j].name], 1, Len(samples))]]

\* The body shared by analyze_lcoe_uncertainty and analyze_lcos_uncertainty.
AnalyzeUncertainty(kind, h, a, distributions, parameter_samples, n_samples) ==
    CHOOSE r \in
      { LET samples == ValidOutputs(loop.outputs)
        IN  IF Len(samples) = 0
            THEN [heap |-> loop.heap, outputs |-> loop.outputs,
                  result |-> Raise("ValueError")]
            ELSE [heap |-> loop.heap, outputs |-> loop.outputs,
                  result |-> Ok(calculate_monte_carlo_stats(samples, distributions,
                                                            parameter_samples))] :
        loop \in {SampleLoop(kind, h, a, distributions, parameter_samples,
                             n_samples, 1, <<>>)} } :
          TRUE

analyze_lcoe_uncertainty(h, a, distributions, parameter_samples, n_samples) ==
    AnalyzeUncertainty("lcoe", h, a, distributions, parameter_samples, n_samples)

analyze_lcos_uncertainty(h, a, distributions, parameter_samples, n_samples) ==
    AnalyzeUncertainty("lcos", h, a, distributions, parameter_samples, n_samples)

(***************************************************************************)
(* The callers' inputs.  A behaviour starts with one inputs object at      *)
(* address 1: an LCOEInputs (financing at 2, degradation at 3) or an       *)
(* LCOSInputs (financing at 2).  The values are small so that the exact    *)
(* arithmetic stays within TLC's integers; they include the degenerate     *)
(* values the dataclasses accept (nothing in models.py validates a field). *)
(***************************************************************************)
FinancingSet ==
    { FinancingParameters(Zero, Zero, Zero, Zero, Zero, Zero, Zero),
      FinancingParameters(R(2), Zero, Q(1, 2), One, Q(1, 10), Q(3, 10), Zero),
      FinancingParameters(One, One, Zero, One, Q(1, 20), Q(3, 10), R(800)) }

\* Financing for the long-lived storage scenarios: no discounting.
LongLifeFinancingSet ==
    { FinancingParameters(Zero, Zero, Zero, Zero, Zero, Zero, Zero),
      FinancingParameters(Zero, Zero, Zero, Q(1, 2), Q(1, 10), Q(3, 10), Zero) }

DegradationRates == {Q(-1, 2), Zero, Q(1, 4), Q(1, 2), One, R(2)}

StepConfigurations ==
    { << <<>>, <<>> >>,
      << <<2>>, <<Q(1, 2)>> >>,
      << <<1, 3>>, <<Q(1, 2), Q(1, 4)>> >>,
      << <<3, 1>>, <<Q(1, 4), Q(1, 2)>> >>,
      << <<0, 2>>, <<R(2), Q(1, 2)>> >>,
      << <<1, 2>>, <<Q(1, 2)>> >> }

DegradationSet ==
    { DegradationModel(r, t, <<>>, <<>>) :
          r \in DegradationRates, t \in {"linear", "exponential", "none"} }
    \cup { DegradationModel(Q(1, 4), "step", c[1], c[2]) : c \in StepConfigurations }

DefaultDegradation == DegradationModel(Q(1, 4), "linear", <<>>, <<>>)

LCOEHeaps ==
    { << LCOEInputs(R(capex), R(size), R(15), Zero, R(fuel), cf, life, 3, 2),
         fin, DefaultDegradation >> :
          capex \in {0, 1000}, size \in {0, 10}, fuel \in {0, 10},
          cf \in {Zero, Q(1, 4)}, life \in (-1)..MaxLife, fin \in FinancingSet }
    \cup
    { << LCOEInputs(R(1000), R(10), R(15), R(5), Zero, Q(1, 4), MaxLife, 3, 2),
         FinancingParameters(R(2), Zero, Q(1, 2), One, Q(1, 10), Q(3, 10), Zero),
         deg >> : deg \in DegradationSet }

LCOSHeaps ==
    { << LCOSInputs(R(capex), size, R(5), Q(1, 100), Q(9, 10), R(cpy), cycles, cal,
                    Q(9, 10), cfade, Q(1, 10), 2), fin >> :
          capex \in {0, 400}, size \in {Zero, R(100)}, cpy \in {0, 1, 2},
          cycles \in {0, 3, 5}, cal \in 0..MaxLife, cfade \in {Zero, Q(1, 4)},
          fin \in FinancingSet }
    \cup
    { << LCOSInputs(R(800), Q(27, 2), Zero, Zero, Q(39, 40), R(365), 4000, cal,
                    One, cfade, Zero, 2), fin >> :
          cal \in {10, 15}, cfade \in {Zero, Q(1, 50)}, fin \in LongLifeFinancingSet }
    \cup
    { << LCOSInputs(R(400), R(100), R(5), Q(1, 100), rte, One, 5, cal,
                    Q(9, 10), cfade, Q(1, 10), 2), fin >> :
          rte \in {Q(1, 2), Q(7, 10), One}, cal \in 0..MaxLife,
          cfade \in {Zero, Q(1, 4)}, fin \in LongLifeFinancingSet }

(***************************************************************************)
(* The inputs the analyzers are run on: an analysis runs the engine many   *)
(* times and divides the outputs by one another, so the values are smaller *)
(* still.  A capacity factor of 25/219 makes the first-year energy in MWh  *)
(* equal to the size in kW.                                                *)
(***************************************************************************)
AnalysisFinancingSet ==
    { FinancingParameters(Zero, Zero, Zero, Zero, Zero, Zero, Zero),
      FinancingParameters(R(2), One, Q(1, 2), One, Q(1, 2), Q(1, 2), Zero) }

\* Incentives around the capital cost of 100 per kW: a rebate between the
\* after-credit cost at the low and at the high value of a 20% variation, a
\* rebate above both, and a tax credit of the whole cost.
IncentiveFinancingSet ==
    { FinancingParameters(Zero, Zero, Zero, Zero, Zero, Q(1, 2), R(55)),
      FinancingParameters(Zero, Zero, Zero, Zero, Zero, Q(1, 2), R(800)),
      FinancingParameters(Zero, Zero, Zero, Zero, Zero, One, Zero) }

AnalysisLCOEHeaps ==
    { << LCOEInputs(R(capex), R(size), R(2), Zero, One, cf, life, 3, 2),
         fin, DefaultDegradation >> :
          capex \in {0, 100}, size \in {0, 1}, cf \in {Zero, Q(25, 219)},
          life \in 0..MaxAnalysisLife, fin \in AnalysisFinancingSet }
    \cup
    { << LCOEInputs(R(100), One, R(2), Zero, One, Q(25, 219), life, 3, 2),
         fin, DefaultDegradation >> :
          life \in 0..MaxAnalysisLife, fin \in IncentiveFinancingSet }

AnalysisLCOSHeaps ==
    { << LCOSInputs(R(capex), R(10), One, Q(1, 2), One, R(cpy), 3, cal,
                    One, cfade, Q(1, 10), 2), fin >> :
          capex \in {0, 100}, cpy \in {0, 2}, cal \in 0..MaxAnalysisLife,
          cfade \in {Zero, Q(1, 4)}, fin \in AnalysisFinancingSet }

\* The parameter paths requested of the sensitivity analyzer: numeric fields,
\* a nested numeric field and an integer field.
LCOEPaths ==
    { <<"capex_per_kw">>, <<"capacity_factor">>, <<"financing", "discount_rate">>,
      <<"system_lifetime_years">> }

LCOSPaths ==
    { <<"capex_per_kwh">>, <<"cycle_life">>, <<"financing", "discount_rate">>,
      <<"calendar_life_years">> }

\* A name that is no field, a path whose first segment is no field, and a
\* path that names a structure.
OtherPaths == { <<"no_such_field">>, <<"nofin", "discount_rate">>, <<"financing">> }

\* The sequences without repetition of at most n of the paths.
RECURSIVE SeqsUpTo(_, _)
SeqsUpTo(paths, n) ==
    IF n = 0 THEN { <<>> }
    ELSE LET shorter == SeqsUpTo(paths, n - 1)
         IN  shorter \cup
             { Append(q, x) : q \in {r \in shorter : Len(r) = n - 1},
                              x \in paths }

NoRepetition(q) == \A i, j \in 1..Len(q) : i # j => q[i] # q[j]

\* The lists requested: None (the default list), lists of the engine's
\* fields, and one of the other paths alone, before or after a field.
ParameterLists(paths, field) ==
    { [given |-> FALSE, list |-> <<>>] } \cup
    { [given |-> TRUE, list |-> q] :
          q \in {r \in SeqsUpTo(paths, MaxParams) : NoRepetition(r)} }
    \cup { [given |-> TRUE, list |-> q] :
              q \in UNION { { <<x>>, <<x, field>>, <<field, x>> } : x \in OtherPaths } }

Variations == { Q(1, 5), Zero }

\* The distributions given to the Monte Carlo analyzer, each with the values
\* the model draws its samples from.
Distribution(name, distribution_type, base_value, draws) ==
    [dist |-> ParameterDistribution(name, distribution_type, base_value),
     draws |-> draws]

LCOEDistributionLists ==
    { << Distribution(<<"capex_per_kw">>, "normal", R(100), {R(50), R(150)}) >>,
      << Distribution(<<"system_size_kw">>, "normal", One, {Zero, R(2)}),
         Distribution(<<"financing", "discount_rate">>, "uniform", R(2), {R(3)}) >>,
      << Distribution(<<"system_lifetime_years">>, "normal", R(2), {One, R(2)}) >>,
      << Distribution(<<"no_such_field">>, "constant", One, {One}) >>,
      << Distribution(<<"nofin", "discount_rate">>, "normal", One, {One, R(2)}) >> }

LCOSDistributionLists ==
    { << Distribution(<<"capex_per_kwh">>, "normal", R(100), {R(50), R(150)}) >>,
      << Distribution(<<"cycles_per_year">>, "normal", R(2), {Zero, R(1)}),
         Distribution(<<"financing", "discount_rate">>, "uniform", R(2), {R(3)}) >>,
      << Distribution(<<"calendar_life_years">>, "normal", R(2), {One, R(2)}) >>,
      << Distribution(<<"no_such_field">>, "constant", One, {One}) >>,
      << Distribution(<<"nofin", "discount_rate">>, "normal", One, {One, R(2)}) >> }

Names(ds) == { ds[j].dist.name : j \in 1..Len(ds) }
Draws(ds, name) == (CHOOSE j \in 1..Len(ds) : ds[j].dist.name = name)
DistributionsOf(ds) == [j \in 1..Len(ds) |-> ds[j].dist]

\* The outcomes of _generate_parameter_samples the model considers.
ParameterSamples(ds, n) ==
    { ps \in [Names(ds) -> [1..n -> UNION { ds[j].draws : j \in 1..Len(ds) }]] :
          \A name \in Names(ds) : \A i \in 1..n :
              ps[name][i] \in ds[Draws(ds, name)].draws }

IsLCOE(h) == "capex_per_kw" \in DOMAIN h[1]
IsLCOS(h) == "capex_per_kwh" \in DOMAIN h[1]

NoArgs == [none |-> TRUE]

Start ==
    /\ op = "init"
    /\ args = NoArgs
    /\ out = [status |-> "none"]

\* What the caller remembers of its calls of calculate: nothing before the
\* first one; then the inputs and the result of the first one, and whether it
\* has made another call since.
NoCall == [status |-> "none"]

\* The caller's memory after a call of calculate that returns result.
Remember(result) ==
    IF earlier = NoCall
    THEN [status |-> "called", inputs |-> heap, result |-> result,
          between |-> FALSE]
    ELSE earlier

\* The caller's memory after any other call.
Interposed == IF earlier = NoCall THEN earlier ELSE [earlier EXCEPT !.between = TRUE]

Init == heap \in LCOEHeaps \cup LCOSHeaps /\ Start /\ earlier = NoCall

InitAnalysis ==
    heap \in AnalysisLCOEHeaps \cup AnalysisLCOSHeaps /\ Start /\ earlier = NoCall

(***************************************************************************)
(* The operations.  A call is made on the caller's inputs; what the call   *)
(* leaves of the heap is the caller's objects (the copies are garbage).    *)
(***************************************************************************)
CallerHeap(h) == SubSeq(h, 1, Len(heap))

CalculateLCOE ==
    /\ op = "init" /\ IsLCOE(heap)
    /\ op' = "lcoe"
    /\ args' = NoArgs
    /\ out' = LCOE_calculate(heap, 1)
    /\ earlier' = Remember(out')
    /\ UNCHANGED heap

CalculateLCOS ==
    /\ op = "init" /\ IsLCOS(heap)
    /\ op' = "lcos"
    /\ args' = NoArgs
    /\ out' = LCOS_calculate(heap, 1)
    /\ earlier' = Remember(out')
    /\ UNCHANGED heap

PerformanceFactor ==
    /\ op = "init" /\ IsLCOE(heap)
    /\ \E year \in 0..MaxYear :
          /\ op' = "performance_factor"
          /\ args' = [year |-> year]
          /\ out' = performance_factor(heap[heap[1].degradation.v], year)
    /\ earlier' = Interposed
    /\ UNCHANGED heap

AnalyzeLCOESensitivity ==
    /\ op = "init" /\ IsLCOE(heap)
    /\ \E parameters \in ParameterLists(LCOEPaths, <<"capex_per_kw">>), variation_percent \in Variations :
          \E r \in {analyze_lcoe_sensitivity(heap, 1, parameters, variation_percent)} :
              /\ op' = "lcoe_sensitivity"
              /\ args' = [parameters |-> parameters,
                          variation_percent |-> variation_percent]
              /\ out' = r.result
              /\ heap' = CallerHeap(r.heap)
    /\ earlier' = Interposed

AnalyzeLCOSSensitivity ==
    /\ op = "init" /\ IsLCOS(heap)
    /\ \E parameters \in ParameterLists(LCOSPaths, <<"capex_per_kwh">>), variation_percent \in Variations :
          \E r \in {analyze_lcos_sensitivity(heap, 1, parameters, variation_percent)} :
              /\ op' = "lcos_sensitivity"
              /\ args' = [parameters |-> parameters,
                          variation_percent |-> variation_percent]
              /\ out' = r.result
              /\ heap' = CallerHeap(r.heap)
    /\ earlier' = Interposed

AnalyzeLCOEUncertainty ==
    /\ op = "init" /\ IsLCOE(heap)
    /\ \E ds \in LCOEDistributionLists, n \in 1..MaxSamples :
          \E ps \in ParameterSamples(ds, n) :
              \E r \in {analyze_lcoe_uncertainty(heap, 1, DistributionsOf(ds), ps, n)} :
                  /\ op' = "lcoe_uncertainty"
                  /\ args' = [distributions |-> DistributionsOf(ds),
                              parameter_samples |-> ps, n_samples |-> n,
                              outputs |-> r.outputs]
                  /\ out' = r.result
                  /\ heap' = CallerHeap(r.heap)
    /\ earlier' = Interposed

AnalyzeLCOSUncertainty ==
    /\ op = "init" /\ IsLCOS(heap)
    /\ \E ds \in LCOSDistributionLists, n \in 1..MaxSamples :
          \E ps \in ParameterSamples(ds, n) :
              \E r \in {analyze_lcos_uncertainty(heap, 1, DistributionsOf(ds), ps, n)} :
                  /\ op' = "lcos_uncertainty"
                  /\ args' = [distributions |-> DistributionsOf(ds),
                              parameter_samples |-> ps, n_samples |-> n,
                              outputs |-> r.outputs]
                  /\ out' = r.result
                  /\ heap' = CallerHeap(r.heap)
    /\ earlier' = Interposed

\* The caller goes on to its next call.
Return ==
    /\ op # "init"
    /\ op' = "init"
    /\ args' = NoArgs
    /\ out' = [status |-> "none"]
    /\ UNCHANGED <<heap, earlier>>

Next == CalculateLCOE \/ CalculateLCOS \/ PerformanceFactor \/ Return

Spec == Init /\ [][Next]_vars

NextAnalysis ==
    \/ CalculateLCOE \/ CalculateLCOS \/ PerformanceFactor
    \/ AnalyzeLCOESensitivity \/ AnalyzeLCOSSensitivity
    \/ AnalyzeLCOEUncertainty \/ AnalyzeLCOSUncertainty
    \/ Return

SpecAnalysis == InitAnalysis /\ [][NextAnalysis]_vars

(***************************************************************************)
(* scenarios.py: ScenarioBuilder and TeslaScenarioBuilder.  A builder      *)
(* returns a new object graph, given here as a heap of its own: the inputs *)
(* at address 1, their financing at 2, and at 3 the degradation model (of  *)
(* LCOEInputs) or the load profile (of LCOSInputs).  A use case is a       *)
(* member of the UseCase enumeration or, as Python allows, any other       *)
(* value; a technology is compared by its tag.                             *)
(***************************************************************************)
\* The fields of _load_regional_data that the builders read.
regional_data ==
    ("CA" :> [solar_irradiance_factor |-> Q(11, 10), cost_multiplier |-> Q(6, 5),
              federal_itc |-> Q(3, 10), state_rebate |-> R(1000)]) @@
    ("TX" :> [solar_irradiance_factor |-> Q(21, 20), cost_multiplier |-> Q(9, 10),
              federal_itc |-> Q(3, 10), state_rebate |-> Zero]) @@
    ("FL" :> [solar_irradiance_factor |-> One, cost_multiplier |-> One,
              federal_itc |-> Q(3, 10), state_rebate |-> Zero]) @@
    ("NY" :> [solar_irradiance_factor |-> Q(17, 20), cost_multiplier |-> Q(13, 10),
              federal_itc |-> Q(3, 10), state_rebate |-> R(1500)]) @@
    ("AZ" :> [solar_irradiance_factor |-> Q(6, 5), cost_multiplier |-> Q(19, 20),
              federal_itc |-> Q(3, 10), state_rebate |-> Zero])

use_case_profiles ==
    ("residential" :>
        [typical_size_kw |-> R(7), capacity_factor |-> Q(19, 100),
         load_profile |-> [annual_energy_kwh |-> R(10000), peak_demand_kw |-> R(5),
                           load_factor |-> Q(3, 10)],
         financing |-> [discount_rate |-> Q(6, 100), debt_fraction |-> Q(8, 10),
                        debt_interest_rate |-> Q(4, 100)]]) @@
    ("commercial" :>
        [typical_size_kw |-> R(100), capacity_factor |-> Q(22, 100),
         load_profile |-> [annual_energy_kwh |-> R(150000), peak_demand_kw |-> R(75),
                           load_factor |-> Q(4, 10)],
         financing |-> [discount_rate |-> Q(8, 100), debt_fraction |-> Q(7, 10),
                        debt_interest_rate |-> Q(5, 100)]]) @@
    ("utility" :>
        [typical_size_kw |-> R(50000), capacity_factor |-> Q(25, 100),
         load_profile |-> [annual_energy_kwh |-> R(100000000),
                           peak_demand_kw |-> R(40000), load_factor |-> Q(5, 10)],
         financing |-> [discount_rate |-> Q(7, 100), debt_fraction |-> Q(6, 10),
                        debt_interest_rate |-> Q(4, 100)]])

\* A member of the UseCase enumeration, which has a .value.
UseCase(tag) == [t |-> "UseCase", v |-> tag]

\* self.use_case_profiles[use_case.value]
UseCaseData(use_case) ==
    IF use_case.t # "UseCase" THEN Raise("AttributeError")
    ELSE IF use_case.v \notin DOMAIN use_case_profiles THEN Raise("KeyError")
    ELSE Ok(use_case_profiles[use_case.v])

\* A lookup whose fallback region is Texas.
RegionalData_texas(region) ==
    IF region \in DOMAIN regional_data THEN regional_data[region]
    ELSE regional_data["TX"]

\* self.regional_data.get(region, self.regional_data["CA"])
RegionalData(region) ==
    IF region \in DOMAIN regional_data THEN regional_data[region]
    ELSE regional_data["CA"]

\* FinancingParameters(discount_rate=..., debt_fraction=...,
\* debt_interest_rate=..., federal_itc=..., state_rebate=...), the other
\* fields at their defaults.
ScenarioFinancing(use_case_data, region_data) ==
    FinancingParameters(use_case_data.financing.discount_rate, Q(25, 1000),
                        Q(21, 100), use_case_data.financing.debt_fraction,
                        use_case_data.financing.debt_interest_rate,
                        region_data.federal_itc, region_data.state_rebate)

LoadProfile(annual_energy_kwh, peak_demand_kw, load_factor) ==
    [annual_energy_kwh |-> PyFloat(annual_energy_kwh),
     peak_demand_kw |-> PyFloat(peak_demand_kw),
     load_factor |-> PyFloat(load_factor),
     seasonal_variation |-> PyFloat(Q(2, 10))]

\* The technology-specific parameters of build_lcoe_scenario: PV, wind, and
\* the else branch ("Default to solar").
TechnologyParameters(technology, use_case_data, region_data) ==
    IF technology = "pv"
    THEN [capex_per_kw |-> RMul(R(2000), region_data.cost_multiplier),
          capacity_factor |-> RMul(use_case_data.capacity_factor,
                                   region_data.solar_irradiance_factor),
          fixed_om |-> R(15), variable_om |-> Zero, fuel_cost |-> Zero,
          lifetime |-> 25, degradation_rate |-> Q(5, 1000)]
    ELSE IF technology = "wind"
    THEN [capex_per_kw |-> RMul(R(1500), region_data.cost_multiplier),
          capacity_factor |-> Q(35, 100),
          fixed_om |-> R(25), variable_om |-> R(5), fuel_cost |-> Zero,
          lifetime |-> 20, degradation_rate |-> Q(2, 1000)]
    ELSE [capex_per_kw |-> RMul(R(2000), region_data.cost_multiplier),
          capacity_factor |-> RMul(use_case_data.capacity_factor,
                                   region_data.solar_irradiance_factor),
          fixed_om |-> R(15), variable_om |-> Zero, fuel_cost |-> Zero,
          lifetime |-> 25, degradation_rate |-> Q(5, 1000)]

\* The fields of the two input dataclasses.
Fields(class) ==
    IF class = "LCOEInputs"
    THEN { "capex_per_kw", "system_size_kw", "fixed_om_per_kw_year",
           "variable_om_per_mwh", "fuel_cost_per_mwh", "capacity_factor",
           "system_lifetime_years", "degradation", "financing",
           "technology_type", "use_case" }
    ELSE { "capex_per_kwh", "system_size_kwh", "power_rating_kw",
           "fixed_om_per_kwh_year", "variable_om_per_cycle",
           "round_trip_efficiency", "cycles_per_year", "cycle_life",
           "calendar_life_years", "depth_of_discharge", "capacity_fade_per_year",
           "efficiency_fade_per_cycle", "financing", "load_profile",
           "technology_type", "use_case" }

\* What hasattr finds on the class whatever the instance holds: the fields
\* with a plain default (those with a default_factory have no class
\* attribute) and the instance dictionary __dict__.
ClassAttributes(class) ==
    (Fields(class) \ { "degradation", "financing", "load_profile" })
        \cup { "__dict__" }

\* setattr(inputs, key, value); assigning a dictionary to __dict__ replaces
\* the attributes the instance holds.
SetInputsAttr(h, key, value) ==
    IF key = "__dict__" THEN [h EXCEPT ![1] = value.v]
    ELSE SetAttr(h, 1, key, value)

\* if custom_params: for key, value in custom_params.items():
\*     if hasattr(inputs, key): setattr(inputs, key, value)
\* from item i on; items is the dictionary in its order, <<>> for None.
RECURSIVE ApplyCustomParams(_, _, _, _)
ApplyCustomParams(h, class, items, i) ==
    IF i > Len(items) THEN h
    ELSE ApplyCustomParams(IF items[i].key \in DOMAIN h[1] \cup ClassAttributes(class)
                           THEN SetInputsAttr(h, items[i].key, items[i].value)
                           ELSE h,
                           class, items, i + 1)

LCOEScenario(use_case, technology, use_case_data, region_data, tp) ==
    << [LCOEInputs(tp.capex_per_kw, use_case_data.typical_size_kw, tp.fixed_om,
                   tp.variable_om, tp.fuel_cost, tp.capacity_factor, tp.lifetime,
                   3, 2)
            EXCEPT !.technology_type = PyStr(technology), !.use_case = use_case],
       ScenarioFinancing(use_case_data, region_data),
       DegradationModel(tp.degradation_rate, "linear", <<>>, <<>>) >>

build_lcoe_scenario(use_case, region, technology, custom_params) ==
    IF ~IsOk(UseCaseData(use_case)) THEN UseCaseData(use_case)
    ELSE Ok(ApplyCustomParams(
                LCOEScenario(use_case, technology, UseCaseData(use_case).value,
                             RegionalData(region),
                             TechnologyParameters(technology,
                                                  UseCaseData(use_case).value,
                                                  RegionalData(region))),
                "LCOEInputs", custom_params, 1))

\* The use-case specific battery sizing of build_lcos_scenario.
BatterySizing(use_case, region_data) ==
    IF use_case.v = "residential"
    THEN [system_size_kwh |-> Q(27, 2), power_rating_kw |-> R(5),
          capex_per_kwh |-> RMul(R(800), region_data.cost_multiplier),
          cycles_per_year |-> R(365)]
    ELSE IF use_case.v = "commercial"
    THEN [system_size_kwh |-> R(100), power_rating_kw |-> R(50),
          capex_per_kwh |-> RMul(R(600), region_data.cost_multiplier),
          cycles_per_year |-> R(300)]
    ELSE [system_size_kwh |-> R(1000), power_rating_kw |-> R(500),
          capex_per_kwh |-> RMul(R(400), region_data.cost_multiplier),
          cycles_per_year |-> R(250)]

LCOSScenario(use_case, technology, use_case_data, region_data, sizing) ==
    << [LCOSInputs(sizing.capex_per_kwh, sizing.system_size_kwh, R(5), Q(1, 100),
                   Q(90, 100), sizing.cycles_per_year, 4000, 15, Q(90, 100),
                   Q(2, 100), Q(1, 100000), 2)
            EXCEPT !.power_rating_kw = PyFloat(sizing.power_rating_kw),
                   !.cycles_per_year = [t |-> "int", v |-> sizing.cycles_per_year],
                   !.technology_type = PyStr(technology),
                   !.use_case = use_case]
          @@ [load_profile |-> PyRef(3)],
       ScenarioFinancing(use_case_data, region_data),
       LoadProfile(use_case_data.load_profile.annual_energy_kwh,
                   use_case_data.load_profile.peak_demand_kw,
                   use_case_data.load_profile.load_factor) >>

build_lcos_scenario(use_case, region, technology, custom_params) ==
    IF ~IsOk(UseCaseData(use_case)) THEN UseCaseData(use_case)
    ELSE Ok(ApplyCustomParams(
                LCOSScenario(use_case, technology, UseCaseData(use_case).value,
                             RegionalData(region),
                             BatterySizing(use_case, RegionalData(region))),
                "LCOSInputs", custom_params, 1))

\* TeslaScenarioBuilder.build_powerwall_scenario: the residential LCOS
\* scenario of the region, the Powerwall 3 specifications written over it,
\* then the overrides.
build_powerwall_scenario(region, num_units, custom_params) ==
    Ok(ApplyCustomParams(
           [build_lcos_scenario(UseCase("residential"), region, "battery", <<>>).value
               EXCEPT ![1].capex_per_kwh = PyInt(800),
                      ![1].system_size_kwh = PyFloat(RMul(Q(27, 2), R(num_units))),
                      ![1].power_rating_kw = PyFloat(RMul(Q(23, 2), R(num_units))),
                      ![1].round_trip_efficiency = PyFloat(Q(975, 1000)),
                      ![1].cycle_life = PyInt(4000),
                      ![1].calendar_life_years = PyInt(10),
                      ![1].capacity_fade_per_year = PyFloat(Q(2, 100)),
                      ![1].efficiency_fade_per_cycle = PyFloat(Q(1, 200000)),
                      ![1].depth_of_discharge = PyFloat(One)],
           "LCOSInputs", custom_params, 1))

\* The product specifications that build_solar_panel_scenario and
\* build_solar_roof_scenario write over the residential PV scenario h; the
\* new degradation model is a new object.
SolarProduct(h, capex_per_kw, system_size_kw, fixed_om_per_kw_year) ==
    Append([h EXCEPT ![1].capex_per_kw = capex_per_kw,
                     ![1].system_size_kw = PyFloat(system_size_kw),
                     ![1].fixed_om_per_kw_year = PyFloat(fixed_om_per_kw_year),
                     ![1].degradation = PyRef(Len(h) + 1),
                     ![1].system_lifetime_years = PyInt(25)],
           DegradationModel(Q(4, 1000), "linear", <<>>, <<>>))

build_solar_panel_scenario(region, system_size_kw, custom_params) ==
    Ok(ApplyCustomParams(
           SolarProduct(build_lcoe_scenario(UseCase("residential"), region, "pv",
                                            <<>>).value,
                        PyInt(2500), system_size_kw, R(12)),
           "LCOEInputs", custom_params, 1))

build_solar_roof_scenario(region, system_size_kw, roof_complexity, custom_params) ==
    Ok(ApplyCustomParams(
           SolarProduct(build_lcoe_scenario(UseCase("residential"), region, "pv",
                                            <<>>).value,
                        PyFloat(RMul(R(4000), roof_complexity)), system_size_kw,
                        R(8)),
           "LCOEInputs", custom_params, 1))

(***************************************************************************)
(* The arguments given to the builders, and the builders' calls.           *)
(***************************************************************************)
\* The three members of UseCase, and a value that is none of them.
UseCases ==
    { UseCase("residential"), UseCase("commercial"), UseCase("utility"),
      PyStr("industrial") }

\* Regions of the table, and a code that is not in it.
Regions == { "CA", "NY", "TX", "ZZ" }

\* Members of TechnologyType: the two with defaults of their own in
\* build_lcoe_scenario, and two without.
Technologies == { "pv", "wind", "battery", "hydro" }

\* Override items: fields of LCOEInputs, a field of LCOSInputs, a field of
\* both, a key that is an attribute of neither, and the instance dictionary,
\* an attribute of every object that is a field of neither.
OverrideItems ==
    { [key |-> "capex_per_kw", value |-> PyFloat(R(1))],
      [key |-> "capex_per_kwh", value |-> PyFloat(R(2))],
      [key |-> "system_size_kw", value |-> PyFloat(R(3))],
      [key |-> "use_case", value |-> UseCase("utility")],
      [key |-> "no_such_field", value |-> PyFloat(R(5))],
      [key |-> "__dict__",
       value |-> [t |-> "dict", v |-> [capex_per_kw |-> PyFloat(R(7))]]] }

\* custom_params: None ([given |-> FALSE]) or a dictionary of at most
\* MaxOverrides items, in its order.
CustomParams ==
    { [given |-> FALSE, items |-> <<>>] } \cup
    { [given |-> TRUE, items |-> q] :
          q \in {r \in SeqsUpTo(OverrideItems, MaxOverrides) :
                    \A i, j \in 1..Len(r) : i # j => r[i].key # r[j].key} }

InitScenario == heap = <<>> /\ Start /\ earlier = NoCall

BuildLCOEScenario ==
    /\ op = "init"
    /\ \E use_case \in UseCases, region \in Regions, technology \in Technologies,
          custom_params \in CustomParams :
          /\ op' = "build_lcoe_scenario"
          /\ args' = [use_case |-> use_case, region |-> region,
                      technology |-> technology, custom_params |-> custom_params]
          /\ out' = build_lcoe_scenario(use_case, region, technology,
                                        custom_params.items)
    /\ earlier' = Interposed
    /\ UNCHANGED heap

BuildLCOSScenario ==
    /\ op = "init"
    /\ \E use_case \in UseCases, region \in Regions, technology \in Technologies,
          custom_params \in CustomParams :
          /\ op' = "build_lcos_scenario"
          /\ args' = [use_case |-> use_case, region |-> region,
                      technology |-> technology, custom_params |-> custom_params]
          /\ out' = build_lcos_scenario(use_case, region, technology,
                                        custom_params.items)
    /\ earlier' = Interposed
    /\ UNCHANGED heap

BuildPowerwallScenario ==
    /\ op = "init"
    /\ \E region \in Regions, num_units \in 1..2, custom_params \in CustomParams :
          /\ op' = "build_powerwall_scenario"
          /\ args' = [region |-> region, num_units |-> num_units,
                      custom_params |-> custom_params]
          /\ out' = build_powerwall_scenario(region, num_units, custom_params.items)
    /\ earlier' = Interposed
    /\ UNCHANGED heap

BuildSolarPanelScenario ==
    /\ op = "init"
    /\ \E region \in Regions, system_size_kw \in {R(7), R(10)},
          custom_params \in CustomParams :
          /\ op' = "build_solar_panel_scenario"
          /\ args' = [region |-> region, system_size_kw |-> system_size_kw,
                      custom_params |-> custom_params]
          /\ out' = build_solar_panel_scenario(region, system_size_kw,
                                               custom_params.items)
    /\ earlier' = Interposed
    /\ UNCHANGED heap

BuildSolarRoofScenario ==
    /\ op = "init"
    /\ \E region \in Regions, system_size_kw \in {R(7), R(10)},
          roof_complexity \in {One, Q(3, 2)}, custom_params \in CustomParams :
          /\ op' = "build_solar_roof_scenario"
          /\ args' = [region |-> region, system_size_kw |-> system_size_kw,
                      roof_complexity |-> roof_complexity,
                      custom_params |-> custom_params]
          /\ out' = build_solar_roof_scenario(region, system_size_kw,
                                              roof_complexity, custom_params.items)
    /\ earlier' = Interposed
    /\ UNCHANGED heap

NextScenario ==
    \/ BuildLCOEScenario \/ BuildLCOSScenario \/ BuildPowerwallScenario
    \/ BuildSolarPanelScenario \/ BuildSolarRoofScenario \/ Return

SpecScenario == InitScenario /\ [][NextScenario]_vars

(***************************************************************************)
(* Properties of the engines, checked under Spec.                          *)
(***************************************************************************)
Returned(name) == op = name /\ IsOk(out)

Inputs == heap[1]

Degradation == heap[Inputs.degradation.v]

\* C1: in every result that calculate returns, the four cost components add
\* up exactly to the levelized total per MWh, for LCOE (capex, opex, fuel,
\* financing) and for LCOS (capex, opex, replacement, financing); where the
\* lifetime energy or throughput is zero, the total and the four components
\* are all 0.
C1_ComponentsSumToTotal ==
    /\ Returned("lcoe") =>
         /\ RAdd(RAdd(RAdd(out.value.capex_component, out.value.opex_component),
                      out.value.fuel_component),
                 out.value.financing_component) = out.value.lcoe_usd_per_mwh
         /\ out.value.total_energy_mwh = Zero =>
              /\ out.value.lcoe_usd_per_mwh = Zero
              /\ out.value.capex_component = Zero
              /\ out.value.opex_component = Zero
              /\ out.value.fuel_component = Zero
              /\ out.value.financing_component = Zero
    /\ Returned("lcos") =>
         /\ RAdd(RAdd(RAdd(out.value.capex_component, out.value.opex_component),
                      out.value.replacement_component),
                 out.value.financing_component) = out.value.lcos_usd_per_mwh
         /\ out.value.total_throughput_mwh = Zero =>
              /\ out.value.lcos_usd_per_mwh = Zero
              /\ out.value.capex_component = Zero
              /\ out.value.opex_component = Zero
              /\ out.value.replacement_component = Zero
              /\ out.value.financing_component = Zero

\* An LCOE result over positive energy in which all four components are
\* positive.
C1_Witness ==
    /\ Returned("lcoe")
    /\ IsPos(out.value.total_energy_mwh)
    /\ IsPos(out.value.capex_component)
    /\ IsPos(out.value.opex_component)
    /\ IsPos(out.value.fuel_component)
    /\ IsPos(out.value.financing_component)

\* C2: for LCOE inputs with a positive system size and a lifetime of 0
\* years, calculate returns a result (it does not raise) whose
\* lcoe_usd_per_kwh and four components are 0.
C2_ZeroLifetimeIsZero ==
    (/\ op = "lcoe"
     /\ Inputs.system_lifetime_years = PyInt(0)
     /\ IsPos(Inputs.system_size_kw.v)) =>
        /\ IsOk(out)
        /\ out.value.lcoe_usd_per_kwh = Zero
        /\ out.value.capex_component = Zero
        /\ out.value.opex_component = Zero
        /\ out.value.fuel_component = Zero
        /\ out.value.financing_component = Zero

\* A result for a lifetime of 0 years whose capital cost is positive.
C2_Witness ==
    /\ Returned("lcoe")
    /\ Inputs.system_lifetime_years = PyInt(0)
    /\ IsPos(out.value.total_capex)
    /\ out.value.lcoe_usd_per_kwh = Zero

\* C3: with a negative system lifetime, calculate fails with a
\* ComputationError and never returns a result.
C3_NegativeLifetimeRaises ==
    (op = "lcoe" /\ RLt(Inputs.system_lifetime_years.v, Zero)) =>
        (~IsOk(out) /\ out.error = "ComputationError")

Monotone(d) ==
    /\ IsOk(out)
    /\ IsOk(performance_factor(d, args.year + 1))
    /\ RLe(performance_factor(d, args.year + 1).value, out.value)

\* C4 as stated: for every degradation rate > 0 and every year >= 0, the
\* linear and exponential performance factors do not increase from the year
\* to the next.
C4_MonotoneForPositiveRate ==
    (/\ op = "performance_factor"
     /\ Degradation.degradation_type.v \in {"linear", "exponential"}
     /\ IsPos(Degradation.annual_degradation_rate.v)) => Monotone(Degradation)

\* C4, amended: for every degradation rate with 0 < rate <= 1 and every
\* year >= 0, the linear and exponential performance factors do not increase
\* from the year to the next.
C4_MonotoneForFractionalRate ==
    (/\ op = "performance_factor"
     /\ Degradation.degradation_type.v \in {"linear", "exponential"}
     /\ IsPos(Degradation.annual_degradation_rate.v)
     /\ RLe(Degradation.annual_degradation_rate.v, One)) => Monotone(Degradation)

\* An exponential factor at a rate strictly between 0 and 1 that strictly
\* decreases in the next year.
C4_Witness ==
    /\ Returned("performance_factor")
    /\ Degradation.degradation_type.v = "exponential"
    /\ IsPos(Degradation.annual_degradation_rate.v)
    /\ RLt(Degradation.annual_degradation_rate.v, One)
    /\ args.year >= 1
    /\ RLt(performance_factor(Degradation, args.year + 1).value, out.value)

InUnitInterval(q) == RLe(Zero, q) /\ RLe(q, One)

FactorInUnitInterval == IsOk(out) /\ InUnitInterval(out.value)

\* The degradation parameters that the variant of d reads are fractions: the
\* annual rate for linear and exponential, and for step one loss fraction for
\* each trigger year.
FractionalDegradation(d) ==
    /\ d.degradation_type.v \in {"linear", "exponential"} =>
         InUnitInterval(d.annual_degradation_rate.v)
    /\ d.degradation_type.v = "step" =>
         /\ Len(d.step_rates.v) >= Len(d.step_years.v)
         /\ \A i \in 1..Len(d.step_years.v) : InUnitInterval(d.step_rates.v[i])

\* C5 as stated: performance_factor returns a value in [0, 1] for every
\* year >= 0, for the linear, exponential and step variants and for any
\* other variant tag.
C5_FactorInUnitInterval == op = "performance_factor" => FactorInUnitInterval

\* C5, amended: performance_factor returns a value in [0, 1] for every
\* year >= 0, for the linear and exponential variants when the annual
\* degradation rate is in [0, 1], for the step variant when there is a loss
\* fraction in [0, 1] for every trigger year, and for any other variant tag.
C5_FactorInUnitIntervalForFractions ==
    (op = "performance_factor" /\ FractionalDegradation(Degradation)) =>
        FactorInUnitInterval

\* A linear factor that the floor holds at 0: the year times the rate
\* exceeds 1.
C5_Witness ==
    /\ Returned("performance_factor")
    /\ Degradation.degradation_type.v = "linear"
    /\ InUnitInterval(Degradation.annual_degradation_rate.v)
    /\ RLt(One, RMul(R(args.year), Degradation.annual_degradation_rate.v))
    /\ out.value = Zero

Floor(q) == q[1] \div q[2]

CycleLimited == RDiv(Inputs.cycle_life.v, Inputs.cycles_per_year.v)

EffectiveLifetime == RMin(CycleLimited, Inputs.calendar_life_years.v)

ReplacementDue ==
    /\ RLt(CycleLimited, Inputs.calendar_life_years.v)
    /\ IsPos(out.value.total_throughput_mwh)

Is4000Over365In15 ==
    /\ Inputs.cycle_life = PyInt(4000)
    /\ Inputs.cycles_per_year.v = R(365)
    /\ Inputs.calendar_life_years = PyInt(15)

IntegratesEffectiveLifetime == out.value.years_integrated = Floor(EffectiveLifetime)

\* C6 as stated: the throughput integration runs over exactly
\* floor(min(cycle_life / cycles_per_year, calendar_life_years)) years;
\* whenever the cycle-limited lifetime is below the calendar life and the
\* throughput is positive, replacement_component > 0; cycle life 4000 at 365
\* cycles a year with a calendar life of 15 integrates 10 years and has a
\* replacement.
C6_LifetimeAndReplacement ==
    Returned("lcos") =>
        /\ IntegratesEffectiveLifetime
        /\ ReplacementDue => IsPos(out.value.replacement_component)
        /\ Is4000Over365In15 =>
             /\ out.value.years_integrated = 10
             /\ IsPos(out.value.replacement_component)

\* C6, amended: the throughput integration runs over exactly
\* floor(min(cycle_life / cycles_per_year, calendar_life_years)) years;
\* whenever the cycle-limited lifetime is below the calendar life, the
\* throughput is positive and capex_per_kwh > 0, replacement_component > 0;
\* cycle life 4000 at 365 cycles a year with a calendar life of 15
\* integrates 10 years and, with capex_per_kwh > 0, has a replacement.
C6_LifetimeAndPaidReplacement ==
    Returned("lcos") =>
        /\ IntegratesEffectiveLifetime
        /\ (ReplacementDue /\ IsPos(Inputs.capex_per_kwh.v)) =>
             IsPos(out.value.replacement_component)
        /\ Is4000Over365In15 =>
             /\ out.value.years_integrated = 10
             /\ IsPos(Inputs.capex_per_kwh.v) =>
                  IsPos(out.value.replacement_component)

\* The result for cycle life 4000 at 365 cycles a year and a calendar life
\* of 15: 10 years integrated, and a replacement paid for.
C6_Witness ==
    /\ Returned("lcos")
    /\ Is4000Over365In15
    /\ out.value.years_integrated = 10
    /\ IsPos(out.value.replacement_component)

IsPowerwall3 ==
    /\ Inputs.capex_per_kwh.v = R(800)
    /\ Inputs.system_size_kwh.v = Q(27, 2)
    /\ Inputs.round_trip_efficiency.v = Q(39, 40)
    /\ Inputs.cycle_life = PyInt(4000)
    /\ Inputs.calendar_life_years = PyInt(10)
    /\ Inputs.cycles_per_year.v = R(365)

\* C7: in every LCOS result end_of_life_capacity >= 0.5, and it is < 1
\* when capacity_fade_per_year > 0 and the effective lifetime is positive;
\* with the Powerwall 3 defaults (800 per kWh, 13.5 kWh, efficiency 0.975,
\* cycle life 4000, calendar life 10, 365 cycles a year)
\* lcos_usd_per_kwh > 0.
C7_EndOfLifeCapacity ==
    Returned("lcos") =>
        /\ RLe(Q(1, 2), out.value.end_of_life_capacity)
        /\ (IsPos(Inputs.capacity_fade_per_year.v) /\ IsPos(EffectiveLifetime)) =>
             RLt(out.value.end_of_life_capacity, One)
        /\ IsPowerwall3 => IsPos(out.value.lcos_usd_per_kwh)

\* A result whose end-of-life capacity is held at the floor of 0.5: the
\* fade over the effective lifetime exceeds one half.
C7_Witness ==
    /\ Returned("lcos")
    /\ RLt(Q(1, 2), RMul(EffectiveLifetime, Inputs.capacity_fade_per_year.v))
    /\ out.value.end_of_life_capacity = Q(1, 2)

(***************************************************************************)
(* Properties of the analyzers, checked under SpecAnalysis.                *)
(***************************************************************************)
SensitivityReturned ==
    /\ op \in {"lcoe_sensitivity", "lcos_sensitivity"}
    /\ IsOk(out)

Kind == IF op = "lcoe_sensitivity" THEN "lcoe" ELSE "lcos"

Resolves(param) == IsOk(get_nested_attribute(heap, 1, param))

\* C8: no call of an engine or an analyzer changes the caller's inputs: in
\* every step, a call or its return, whether the call returned or raised,
\* every field of base_inputs and of its nested financing and degradation
\* objects keeps its value.
C8_InputsNotMutated == [][heap' = heap]_vars

\* A sensitivity analysis that has varied a field of the nested financing
\* object and returned its record.
C8_Witness ==
    /\ SensitivityReturned
    /\ \E i \in 1..Len(out.value) :
          /\ out.value[i].parameter_name = <<"financing", "discount_rate">>
          /\ out.value[i].low_result # out.value[i].high_result

\* C9: the records that analyze_lcoe_sensitivity and
\* analyze_lcos_sensitivity return are in descending order of absolute
\* elasticity, each record's being at least that of the next, whatever the
\* order of the requested paths.
C9_SortedByElasticity ==
    SensitivityReturned =>
        \A i \in 1..(Len(out.value) - 1) :
            RLe(RAbs(out.value[i + 1].elasticity), RAbs(out.value[i].elasticity))

\* Two records of strictly different absolute elasticity returned in the
\* order opposite to that of the request.
C9_Witness ==
    /\ SensitivityReturned
    /\ args.parameters.given
    /\ Len(args.parameters.list) = 2
    /\ Len(out.value) = 2
    /\ out.value[1].parameter_name = args.parameters.list[2]
    /\ RLt(RAbs(out.value[2].elasticity), RAbs(out.value[1].elasticity))

\* C10: when some of the requested paths do not resolve on base_inputs, the
\* unresolvable paths make no difference to the call: its outcome is that of
\* the call with the resolvable paths alone, so it returns the same records
\* for them, and it does not raise where the calculation on base_inputs
\* itself does not.
C10_UnresolvablePathsSkipped ==
    (/\ op \in {"lcoe_sensitivity", "lcos_sensitivity"}
     /\ args.parameters.given
     /\ \E i \in 1..Len(args.parameters.list) : ~Resolves(args.parameters.list[i])) =>
        /\ out = AnalyzeSensitivity(Kind, heap, 1,
                                    SelectSeq(args.parameters.list, Resolves),
                                    args.variation_percent).result
        /\ IsOk(EngineCalculate(Kind, heap, 1)) => IsOk(out)

\* A request whose first path does not resolve and which returns the record
\* of a later path.
C10_Witness ==
    /\ SensitivityReturned
    /\ args.parameters.given
    /\ Len(args.parameters.list) >= 2
    /\ ~Resolves(args.parameters.list[1])
    /\ Len(out.value) >= 1

(***************************************************************************)
(* Properties of the batch analyzers' failure handling, checked under      *)
(* SpecAnalysis.                                                           *)
(***************************************************************************)
UncertaintyCalled == op \in {"lcoe_uncertainty", "lcos_uncertainty"}

EngineKind == IF IsLCOE(heap) THEN "lcoe" ELSE "lcos"

Requested ==
    IF args.parameters.given THEN args.parameters.list
    ELSE IF op = "lcoe_sensitivity" THEN DefaultLCOEParameters
    ELSE DefaultLCOSParameters

\* The indices of the samples whose evaluation raised.
FailedSamples(outputs) == { i \in 1..Len(outputs) : ~IsOk(outputs[i]) }

\* What the caller holds after the call: the MonteCarloResult, of which
\* correlated is no field, or the exception.
Received(result) ==
    IF IsOk(result) THEN [result.value EXCEPT !.correlated = <<>>] ELSE result

\* The draws of parameter_samples with the sample indices permuted.
Reordered(parameter_samples, perm) ==
    [name \in DOMAIN parameter_samples |->
        [i \in DOMAIN perm |-> parameter_samples[name][perm[i]]]]

Recorded(param) == \E i \in 1..Len(out.value) : out.value[i].parameter_name = param

Skipped(param) ==
    ~IsOk(SensitivityOfParameter(
              EngineKind, heap, 1,
              EngineOutput(EngineKind, EngineCalculate(EngineKind, heap, 1).value),
              param, args.variation_percent).result)

ParameterOutcome(param) ==
    SensitivityOfParameter(
        EngineKind, heap, 1,
        EngineOutput(EngineKind, EngineCalculate(EngineKind, heap, 1).value),
        param, args.variation_percent).result

\* The parameter is a number whose low and high values coincide: it is 0, or
\* the variation is 0.
Degenerate(param) ==
    /\ Resolves(param)
    /\ IsNum(get_nested_attribute(heap, 1, param).value)
    /\ \/ IsZero(get_nested_attribute(heap, 1, param).value.v)
       \/ IsZero(args.variation_percent)

\* C12: whenever the low and the high value of a requested parameter are
\* identical (its base value is 0, or the variation fraction is 0), the
\* analyzer divides by zero nowhere in its pass for the parameter and
\* returns a record for it whose sensitivity is 0.
C12_DegeneratePassIsZero ==
    SensitivityReturned =>
        \A i \in 1..Len(Requested) :
            Degenerate(Requested[i]) =>
                /\ ParameterOutcome(Requested[i]) # Raise("ZeroDivisionError")
                /\ \E k \in 1..Len(out.value) :
                      /\ out.value[k].parameter_name = Requested[i]
                      /\ out.value[k].sensitivity = Zero

Financing == heap[Inputs.financing.v]

RecordOf(param) == out.value[CHOOSE k \in 1..Len(out.value) : out.value[k].parameter_name = param]

CapexRequested ==
    /\ op = "lcoe_sensitivity"
    /\ \E i \in 1..Len(Requested) : Requested[i] = <<"capex_per_kw">>

PositiveCapexSensitivity ==
    /\ IsOk(out)
    /\ Recorded(<<"capex_per_kw">>)
    /\ IsPos(RecordOf(<<"capex_per_kw">>).sensitivity)
    /\ RLt(RecordOf(<<"capex_per_kw">>).low_result,
           RecordOf(<<"capex_per_kw">>).high_result)

\* The scenario of the claim: positive system size, capacity factor and
\* lifetime, and a federal tax credit below 1.
RepresentativePV ==
    /\ IsPos(Inputs.system_size_kw.v)
    /\ IsPos(Inputs.capacity_factor.v)
    /\ IsPos(Inputs.system_lifetime_years.v)
    /\ RLt(Financing.federal_itc.v, One)

\* The capital cost per kW at the high value, after the tax credit.
HighCapexAfterCredit ==
    RMul(RMul(Inputs.capex_per_kw.v, RAdd(One, args.variation_percent)),
         RSub(One, Financing.federal_itc.v))

\* C13 as stated: for a PV scenario with positive system size, capacity
\* factor and lifetime and a federal tax credit below 1,
\* analyze_lcoe_sensitivity on capex_per_kw returns a record with
\* sensitivity > 0, the LCOE at the high capex value being strictly greater
\* than at the low one.
C13_CapexSensitivityPositive ==
    (CapexRequested /\ RepresentativePV) => PositiveCapexSensitivity

\* The rates are those of costs that do not fall as capital grows and of
\* energy that is positive: no financing rate is negative, the effective
\* discount rate is not negative, and the degradation rate is in [0, 1].
OrdinaryRates ==
    /\ RLe(Zero, Financing.discount_rate.v)
    /\ RLe(Zero, effective_discount_rate(Financing))
    /\ RLe(Zero, Financing.debt_fraction.v)
    /\ RLe(Zero, Financing.debt_interest_rate.v)
    /\ InUnitInterval(Degradation.annual_degradation_rate.v)

\* C13, amended: the same, for a scenario that moreover has
\* capex_per_kw > 0, a positive variation fraction, a state rebate per kW
\* below the high capex value after the tax credit,
\* capex_per_kw * (1 + variation) * (1 - ITC), and ordinary rates (no
\* negative financing rate or effective discount rate, degradation rate in
\* [0, 1]).
C13_CapexSensitivityPositiveAboveRebate ==
    (/\ CapexRequested
     /\ RepresentativePV
     /\ OrdinaryRates
     /\ IsPos(Inputs.capex_per_kw.v)
     /\ IsPos(args.variation_percent)
     /\ RLt(Financing.state_rebate.v, HighCapexAfterCredit)) =>
        PositiveCapexSensitivity

\* A positive capex sensitivity where the rebate cancels the capital cost at
\* the base and at the low value, and not at the high value.
C13_Witness ==
    /\ CapexRequested
    /\ PositiveCapexSensitivity
    /\ IsPos(Financing.state_rebate.v)
    /\ LCOE_calculate_total_capex(heap, 1) = Zero

\* The outputs of the samples that were evaluated without an exception, in
\* the order of the samples.
ValuesOf(outputs) ==
    [k \in 1..Len(SelectSeq(outputs, IsOk)) |-> SelectSeq(outputs, IsOk)[k].value]

\* C14: every one of the n_samples samples is evaluated, whether or not an
\* earlier one raised; with at least one valid output the analysis returns
\* statistics over exactly the valid outputs (the samples kept, their mean,
\* minimum and maximum); with none it fails with the error for no valid
\* samples, which the code raises as ValueError("No valid ... samples
\* generated").
C14_FailedSamplesExcluded ==
    UncertaintyCalled =>
        /\ Len(args.outputs) = args.n_samples
        /\ ValuesOf(args.outputs) # <<>> =>
             /\ IsOk(out)
             /\ out.value.samples = ValuesOf(args.outputs)
             /\ RMul(out.value.mean, R(Len(ValuesOf(args.outputs)))) =
                    RSum(ValuesOf(args.outputs))
             /\ \A k \in 1..Len(ValuesOf(args.outputs)) :
                   /\ RLe(out.value.min_value, ValuesOf(args.outputs)[k])
                   /\ RLe(ValuesOf(args.outputs)[k], out.value.max_value)
        /\ ValuesOf(args.outputs) = <<>> => out = Raise("ValueError")

\* A batch whose first sample raised and whose second is the one output of
\* the statistics.
C14_Witness ==
    /\ UncertaintyCalled
    /\ IsOk(out)
    /\ args.n_samples = 2
    /\ ~IsOk(args.outputs[1])
    /\ IsOk(args.outputs[2])
    /\ out.value.samples = <<args.outputs[2].value>>

(***************************************************************************)
(* Properties of the scenario builders, checked under SpecScenario.        *)
(***************************************************************************)
BuilderCalled ==
    op \in { "build_lcoe_scenario", "build_lcos_scenario",
             "build_powerwall_scenario", "build_solar_panel_scenario",
             "build_solar_roof_scenario" }

GenericBuilderCalled == op \in { "build_lcoe_scenario", "build_lcos_scenario" }

KnownUseCase(use_case) ==
    use_case \in { UseCase("residential"), UseCase("commercial"), UseCase("utility") }

\* The technology tags a builder has defaults of its own for: PV and wind in
\* build_lcoe_scenario, the battery in build_lcos_scenario.
HasDefaults(builder, technology) ==
    IF builder = "build_lcoe_scenario" THEN technology \in { "pv", "wind" }
    ELSE technology = "battery"

\* C15: build_lcoe_scenario and build_lcos_scenario raise for every use-case
\* tag outside {residential, commercial, utility} and for every technology
\* tag they have no defaults for; they never return defaults substituted for
\* an unknown tag.
C15_UnknownTagsRaise ==
    GenericBuilderCalled =>
        ( ~KnownUseCase(args.use_case) \/ ~HasDefaults(op, args.technology)
              => ~IsOk(out) )

\* The same call of a generic builder, made for another region.
CalledFor(region) ==
    IF op = "build_lcoe_scenario"
    THEN build_lcoe_scenario(args.use_case, region, args.technology,
                             args.custom_params.items)
    ELSE build_lcos_scenario(args.use_case, region, args.technology,
                             args.custom_params.items)

UnknownRegion == args.region \notin DOMAIN regional_data

\* C16: a call of build_lcoe_scenario or build_lcos_scenario with a region
\* code that is not in the regional table does not raise on account of the
\* region, and returns inputs identical, field by field, to those of the same
\* call (same use case, technology and overrides) made with region "CA".
C16_UnknownRegionIsCalifornia ==
    GenericBuilderCalled /\ UnknownRegion =>
        /\ out = CalledFor("CA")
        /\ KnownUseCase(args.use_case) => IsOk(out)

\* An unknown region, overrides given, and California's rebate in the result,
\* which no other region of the table has.
C16_Witness ==
    /\ GenericBuilderCalled /\ UnknownRegion /\ IsOk(out)
    /\ args.custom_params.items # <<>>
    /\ out.value[2].state_rebate.v = R(1000)
    /\ out # CalledFor("NY") /\ out # CalledFor("TX")

\* The dataclass of the inputs the called builder returns.
TargetClass ==
    IF op \in { "build_lcos_scenario", "build_powerwall_scenario" }
    THEN "LCOSInputs" ELSE "LCOEInputs"

\* The same call of the builder, made with other overrides.
CalledWith(custom_params) ==
    CASE op = "build_lcoe_scenario" ->
             build_lcoe_scenario(args.use_case, args.region, args.technology,
                                 custom_params)
      [] op = "build_lcos_scenario" ->
             build_lcos_scenario(args.use_case, args.region, args.technology,
                                 custom_params)
      [] op = "build_powerwall_scenario" ->
             build_powerwall_scenario(args.region, args.num_units, custom_params)
      [] op = "build_solar_panel_scenario" ->
             build_solar_panel_scenario(args.region, args.system_size_kw,
                                        custom_params)
      [] op = "build_solar_roof_scenario" ->
             build_solar_roof_scenario(args.region, args.system_size_kw,
                                       args.roof_complexity, custom_params)

Without(items, i) == SubSeq(items, 1, i - 1) \o SubSeq(items, i + 1, Len(items))

\* The returned inputs hold exactly the supplied value under the key.
Supplied(item) ==
    /\ item.key \in DOMAIN out.value[1]
    /\ out.value[1][item.key] = item.value

\* C17: in all five builders the overrides are applied last, field by field:
\* a key naming a field of the target gets exactly the supplied value in the
\* returned inputs, and a key naming no field of the target either makes the
\* call raise or leaves every field as it is without that key.
C17_OverridesAppliedLast ==
    BuilderCalled /\ IsOk(out) =>
        \A i \in 1..Len(args.custom_params.items) :
            IF args.custom_params.items[i].key \in Fields(TargetClass)
            THEN Supplied(args.custom_params.items[i])
            ELSE out = CalledWith(Without(args.custom_params.items, i))

(***************************************************************************)
(* Determinism of the engines, checked under SpecAnalysis.                 *)
(***************************************************************************)
EngineReturned == op \in { "lcoe", "lcos" }

ZeroEnergyInputs ==
    \/ Inputs.system_lifetime_years.v = Zero
    \/ Inputs.capacity_factor.v = Zero
    \/ Inputs.system_size_kw.v = Zero

AllComponentsZero(result) ==
    /\ result.capex_component = Zero
    /\ result.opex_component = Zero
    /\ result.fuel_component = Zero
    /\ result.financing_component = Zero

\* C20: for every LCOEInputs whose lifetime discounted energy is 0 (lifetime
\* 0, capacity factor 0 or system_size_kw 0), LCOECalculator.calculate raises
\* no division-by-zero error and returns a result whose lcoe_usd_per_mwh and
\* whose four components are 0.
C20_ZeroEnergyIsGuarded ==
    op = "lcoe" /\ ZeroEnergyInputs =>
        /\ IsOk(out)
        /\ out.value.lcoe_usd_per_mwh = Zero
        /\ AllComponentsZero(out.value)

(***************************************************************************)
(* The zero guard and the reported metrics of the LCOS engine, checked     *)
(* under Spec.                                                             *)
(***************************************************************************)
\* Inputs whose lifetime discounted throughput is 0 by one of the four causes.
ZeroThroughputInputs ==
    \/ Inputs.cycles_per_year.v = Zero
    \/ Inputs.cycle_life.v = Zero
    \/ Inputs.calendar_life_years.v = Zero
    \/ Inputs.system_size_kwh.v = Zero

AllStorageComponentsZero(result) ==
    /\ result.capex_component = Zero
    /\ result.opex_component = Zero
    /\ result.replacement_component = Zero
    /\ result.financing_component = Zero

\* C21: for every LCOSInputs whose lifetime discounted throughput is 0
\* (cycles_per_year 0, cycle_life 0, calendar_life_years 0 or size 0),
\* LCOSCalculator.calculate raises no division-by-zero error and returns a
\* result whose lcos_usd_per_mwh and whose four components are 0.
C21_ZeroThroughputIsGuarded ==
    op = "lcos" /\ ZeroThroughputInputs =>
        /\ IsOk(out)
        /\ out.value.lcos_usd_per_mwh = Zero
        /\ AllStorageComponentsZero(out.value)

\* C22: the reported effective_cycles equals floor(effective_lifetime) x
\* cycles_per_year, where effective_lifetime = min(cycle_life /
\* cycles_per_year, calendar_life_years): the number of cycles of the years
\* the throughput integration has counted.
C22_EffectiveCyclesCounted ==
    Returned("lcos") =>
        /\ out.value.effective_cycles
               = RMul(R(Floor(EffectiveLifetime)), Inputs.cycles_per_year.v)
        /\ out.value.effective_cycles
               = RMul(R(out.value.years_integrated), Inputs.cycles_per_year.v)

\* C23: the reported end_of_life_capacity is the capacity factor of the
\* throughput loop at year floor(effective_lifetime), that is
\* max(0.5, 1 - floor(effective_lifetime) x capacity_fade_per_year), also
\* when the effective lifetime is fractional.
C23_EndOfLifeCapacityAtWholeYear ==
    Returned("lcos") =>
        out.value.end_of_life_capacity
            = RMax(Q(1, 2),
                   RSub(One, RMul(R(Floor(EffectiveLifetime)),
                                  Inputs.capacity_fade_per_year.v)))

\* capex_per_kwh x size_kwh x 0.7, discounted from the year
\* floor(cycle_life / cycles_per_year).
SingleReplacement ==
    RDiv(RMul(RMul(Inputs.capex_per_kwh.v, Inputs.system_size_kwh.v), Q(7, 10)),
         RPow(RAdd(One, effective_discount_rate(heap[Inputs.financing.v])),
              Floor(CycleLimited)))

\* C24: if cycle_life / cycles_per_year < calendar_life_years the replacement
\* NPV is exactly (capex_per_kwh x size_kwh x 0.7) / (1 +
\* effective_discount_rate)^floor(cycle_life / cycles_per_year), a single
\* event however much shorter the cycle-limited life is; otherwise the
\* replacement NPV and replacement_component are 0.
C24_SingleReplacement ==
    Returned("lcos") =>
        IF RLt(CycleLimited, Inputs.calendar_life_years.v)
        THEN out.value.replacement_cost_npv = SingleReplacement
        ELSE /\ out.value.replacement_cost_npv = Zero
             /\ out.value.replacement_component = Zero

\* A replacement paid in a later year at a positive discount rate, for a
\* battery whose cycle-limited life fits at least twice in the calendar life.
C24_Witness ==
    /\ Returned("lcos")
    /\ RLe(RMul(R(2), CycleLimited), Inputs.calendar_life_years.v)
    /\ Floor(CycleLimited) >= 1
    /\ IsPos(effective_discount_rate(heap[Inputs.financing.v]))
    /\ IsPos(out.value.replacement_cost_npv)
    /\ RLt(out.value.replacement_cost_npv,
           RMul(RMul(Inputs.capex_per_kwh.v, Inputs.system_size_kwh.v), Q(7, 10)))

(***************************************************************************)
(* The records of the sensitivity analyzer, checked under SpecAnalysis.    *)
(***************************************************************************)
NumericParameter(param) ==
    /\ Resolves(param)
    /\ IsNum(get_nested_attribute(heap, 1, param).value)

BaseValue(param) == get_nested_attribute(heap, 1, param).value.v

\* The engine's output on a copy of base_inputs with the value substituted.
VariedOutput(param, value) ==
    EngineOutput(EngineKind,
                 VariedCalculation(EngineKind, heap, 1, param, value).result.value)

RecordsOf(param) ==
    { k \in 1..Len(out.value) : out.value[k].parameter_name = param }

\* C25: for every requested parameter path that resolves to a numeric field
\* of base_inputs, and so for every parameter of the default lists, the
\* sensitivity result contains exactly one record, with low_value = base x
\* (1 - variation), high_value = base x (1 + variation), and low_result and
\* high_result the engine's outputs on a copy of base_inputs with that value
\* substituted.
C25_OneRecordPerNumericParameter ==
    SensitivityReturned =>
        \A i \in 1..Len(Requested) :
            NumericParameter(Requested[i]) =>
                /\ Cardinality(RecordsOf(Requested[i])) = 1
                /\ \A k \in RecordsOf(Requested[i]) :
                      /\ out.value[k].low_value
                            = RMul(BaseValue(Requested[i]),
                                   RSub(One, args.variation_percent))
                      /\ out.value[k].high_value
                            = RMul(BaseValue(Requested[i]),
                                   RAdd(One, args.variation_percent))
                      /\ out.value[k].low_result
                            = VariedOutput(Requested[i], out.value[k].low_value)
                      /\ out.value[k].high_result
                            = VariedOutput(Requested[i], out.value[k].high_value)

(***************************************************************************)
(* Step degradation, checked under Spec.                                   *)
(***************************************************************************)
\* Starting from 1.0, the product of (1 - loss_fraction_i) over the first n
\* configured pairs whose trigger year the queried year has reached, in
\* configured order.
RECURSIVE TriggeredProduct(_, _, _, _)
TriggeredProduct(years, rates, year, n) ==
    IF n = 0 THEN One
    ELSE IF year >= years[n]
         THEN RMul(TriggeredProduct(years, rates, year, n - 1), RSub(One, rates[n]))
         ELSE TriggeredProduct(years, rates, year, n - 1)

ParallelSteps ==
    /\ Degradation.degradation_type.v = "step"
    /\ Len(Degradation.step_years.v) = Len(Degradation.step_rates.v)

\* C26: for every configuration of parallel step_years / step_rates
\* sequences, the step performance_factor(year) is the product, starting from
\* 1.0 and in configured order, of (1 - loss_fraction_i) over exactly the
\* pairs with year >= trigger_year_i; a pair whose trigger year is greater
\* than the queried year has no effect.
C26_StepFactorIsTriggeredProduct ==
    op = "performance_factor" /\ ParallelSteps =>
        /\ IsOk(out)
        /\ out.value = TriggeredProduct(Degradation.step_years.v,
                                        Degradation.step_rates.v, args.year,
                                        Len(Degradation.step_years.v))

\* A configuration whose pairs are not in the order of their years, queried
\* in the trigger year of its second pair, before that of its first.
C26_Witness ==
    /\ op = "performance_factor" /\ ParallelSteps /\ IsOk(out)
    /\ Len(Degradation.step_years.v) = 2
    /\ args.year = Degradation.step_years.v[2]
    /\ args.year < Degradation.step_years.v[1]
    /\ out.value = RSub(One, Degradation.step_rates.v[2])
    /\ out.value # One

(***************************************************************************)
(* The Monte Carlo analyzer's correlations and unresolved names, checked   *)
(* under SpecAnalysis.                                                     *)
(***************************************************************************)
\* The parameter values of the samples whose output is valid, in order.
RECURSIVE SamplesOfValid(_, _)
SamplesOfValid(param_samples, outputs) ==
    IF outputs = <<>> THEN <<>>
    ELSE IF IsOk(Head(outputs))
         THEN <<Head(param_samples)>> \o SamplesOfValid(Tail(param_samples), Tail(outputs))
         ELSE SamplesOfValid(Tail(param_samples), Tail(outputs))

DrawsOf(j) == args.parameter_samples[args.distributions[j].name]

BaseAnnualThroughput ==
    RDiv(RMul(RMul(RMul(Inputs.system_size_kwh.v, Inputs.depth_of_discharge.v),
                   Inputs.cycles_per_year.v),
              Inputs.round_trip_efficiency.v), R(1000))

\* The throughput the loop computes for the year, before discounting.
UndiscountedThroughput(year) ==
    YearThroughput(Inputs, BaseAnnualThroughput, Zero, year).value.total

ThroughputBounded ==
    \A year \in 0..(out.value.years_integrated - 1) :
        /\ RLe(UndiscountedThroughput(year), BaseAnnualThroughput)
        /\ year > 0 =>
              RLe(UndiscountedThroughput(year), UndiscountedThroughput(year - 1))

NonNegativeStorage ==
    /\ RLe(Zero, Inputs.system_size_kwh.v)
    /\ RLe(Zero, Inputs.depth_of_discharge.v)
    /\ RLe(Zero, Inputs.cycles_per_year.v)
    /\ RLe(Zero, Inputs.capacity_fade_per_year.v)
    /\ RLe(Zero, Inputs.efficiency_fade_per_cycle.v)

\* C28 as stated: for all inputs with non-negative fade rates and
\* round_trip_efficiency in (0, 1], every year's undiscounted throughput of
\* the integration is at most the base annual throughput and is
\* non-increasing in the year index.
C28_ThroughputBounded ==
    (/\ Returned("lcos")
     /\ NonNegativeStorage
     /\ IsPos(Inputs.round_trip_efficiency.v)
     /\ RLe(Inputs.round_trip_efficiency.v, One)) => ThroughputBounded

\* C28, amended: the same for round_trip_efficiency in [0.7, 1], the
\* efficiency floor being at most the nominal efficiency.
C28_ThroughputBoundedAboveFloor ==
    (/\ Returned("lcos")
     /\ NonNegativeStorage
     /\ RLe(Q(7, 10), Inputs.round_trip_efficiency.v)
     /\ RLe(Inputs.round_trip_efficiency.v, One)) => ThroughputBounded

\* Three years integrated with both floors reached: the capacity at 0.5 and
\* the efficiency at 0.7 in the last year, below the nominal 0.9, and the
\* throughput of the last year below that of the first.
C28_Witness ==
    /\ Returned("lcos")
    /\ out.value.years_integrated = 3
    /\ Inputs.round_trip_efficiency.v = Q(9, 10)
    /\ RLe(RSub(One, RMul(R(2), Inputs.capacity_fade_per_year.v)), Q(1, 2))
    /\ RLe(RSub(Inputs.round_trip_efficiency.v,
                RMul(RMul(R(2), Inputs.cycles_per_year.v),
                     Inputs.efficiency_fade_per_cycle.v)), Q(7, 10))
    /\ IsPos(UndiscountedThroughput(2))
    /\ RLt(UndiscountedThroughput(2), UndiscountedThroughput(0))

\* The calls C29 is about: one of the three builders, called without overrides
\* for a use case and a region of the built-in tables.
DefaultsOnly ==
    /\ op \in { "build_lcoe_scenario", "build_lcos_scenario",
                "build_powerwall_scenario" }
    /\ args.custom_params.items = <<>>
    /\ args.region \in DOMAIN regional_data
    /\ GenericBuilderCalled =>
           KnownUseCase(args.use_case) /\ HasDefaults(op, args.technology)

\* The net capex the engine computes for the inputs the builder returned.
EngineCapex ==
    IF op = "build_lcoe_scenario" THEN LCOE_calculate_total_capex(out.value, 1)
    ELSE LCOS_calculate_total_capex(out.value, 1)

\* C29: for every use case and every region of the built-in tables, the inputs
\* that build_lcoe_scenario, build_lcos_scenario and build_powerwall_scenario
\* produce without overrides have a strictly positive net capex in the engine
\* (base capex minus ITC minus state rebate times size): the floor at 0 is
\* never reached by the builders' own defaults.
C29_DefaultsKeepCapexPositive ==
    DefaultsOnly /\ IsOk(out) => IsPos(EngineCapex)

\* Some distribution of the call names no existing field of base_inputs.
UnresolvedDistribution ==
    \E j \in 1..Len(args.distributions) : ~Resolves(args.distributions[j].name)

\* C30: in MonteCarloAnalyzer, a distribution whose dotted name does not
\* resolve to an existing field of base_inputs, whether the missing segment is
\* an intermediate one or the final one, never yields valid samples: every
\* sample is recorded as invalid and the analysis fails, instead of returning
\* statistics computed from outputs that ignore the sampled values.
C30_UnresolvedNameFails ==
    UncertaintyCalled /\ UnresolvedDistribution =>
        /\ FailedSamples(args.outputs) = 1..args.n_samples
        /\ ~IsOk(out)

====
